---- MODULE Spec2Model ----
(***************************************************************************)
(* A model of iperf-cnc: the daemon's port allocator, capacity accountant, *)
(* process manager and result collector, and the controller's topology     *)
(* planner and orchestrator state machine.                                 *)
(*                                                                         *)
(* Each component has its own specification over the shared variables:     *)
(*   SpecAlloc  the port allocator                                         *)
(*   SpecCap    the capacity accountant on its own                         *)
(*   SpecMgr    the process manager with its accountant and collector      *)
(*   SpecOrch   the orchestrator driving the daemons' RPC surface          *)
(*   SpecPlan   the topology planner                                       *)
(*   SpecDaemon the daemon's RPC handlers over manager and collector       *)
(*   SpecColl, SpecSummary, SpecLocks, SpecProgress: the collector, the    *)
(*   aggregator's summary, the manager's lock and the progress tracker     *)
(***************************************************************************)
EXTENDS Integers, Sequences, FiniteSets, TLC

VARIABLES
    \* port.Allocator: its three indices, the last call with its argument and
    \* return value (allocRet), and for every test id the port its first
    \* AllocatePort returned, kept until the id or that port is released
    \* (firstPort)
    allocatedPorts, portToTestID, testIDToPort, allocRet, firstPort,
    \* process.CapacityCalculator
    maxProcesses, usedSlots, capRet,
    \* process.Manager: the two indices, and every ProcessInfo ever created
    \* with the position of its monitor / worker task; stoppedAll records
    \* that StopAll has run and no start request has been made since, mgrRet
    \* the manager's last call with its argument and error ("task" for a step
    \* of a background task)
    processes, servers, procs, stoppedAll, mgrRet,
    \* collector.Collector
    results, completed, failed,
    \* models.NodeRegistry (nodeList) and orchestrator.Orchestrator: its
    \* topology and state, the position of ExecuteTest (opc), the clients the
    \* current phase loop has not visited yet (pending), len(errors) of the
    \* phase, the RPCs in flight, every RPC issued and every RPC answered so
    \* far, and ExecuteTest's return value
    nodeList, topology, state, opc, pending, phaseErrors, inflight, sent,
    returned, ret,
    \* the per-node topologies preparePhase works with
    nodeTopologies,
    \* the seconds waitPhase slept (0 before it)
    waitTime,
    \* the controller's configured overrides, and the planning runs made over
    \* the registry and the overrides: each with its topology, its per-node
    \* topologies and how far it has got
    overrideCfg, plans,
    \* server.DaemonServer: config.MaxProcesses, the RPC handler that is
    \* between two of its steps (handler), and what the last step was: the RPC
    \* that returned, with request and response, or a step of a handler or of
    \* a background task (rpcRet)
    configMaxProcesses, handler, rpcRet,
    \* runTest after ExecuteTest: the position of Aggregator.CollectResults,
    \* the clients its loop has not visited yet, the one whose GetResults is
    \* in flight, those queried and those that answered an error, and its return value
    \* (runTest); the nodes whose results the aggregator holds (aggResults)
    runTest, aggResults,
    \* aggregator.Aggregator.results by test id, and the last GetSummary
    \* return value (NoSummary before the first call and after a change)
    aggregated, summary,
    \* the holder of Manager.mu, and for each concurrent request to the
    \* daemon the operation its goroutine runs, the call it is in (pc), and
    \* the call the background goroutine it started is in (worker)
    mu, goroutines,
    \* Progress.mu, a sync.RWMutex: the read locks held and the writer that
    \* has announced itself or holds the lock (pmu); and for each goroutine
    \* using the tracker the method it called, the call it is in, and
    \* whether it is parked in RLock (callers)
    pmu, callers

allocVars == <<allocatedPorts, portToTestID, testIDToPort, allocRet, firstPort>>

capVars == <<maxProcesses, usedSlots, capRet>>

mgrVars == <<processes, servers, procs, stoppedAll, mgrRet>>

collVars == <<results, completed, failed>>

orchVars == <<nodeList, topology, state, opc, pending, phaseErrors, inflight,
              sent, returned, ret, nodeTopologies, waitTime>>

planVars == <<overrideCfg, plans>>

daemonVars == <<configMaxProcesses, handler, rpcRet>>

aggVars == <<runTest, aggResults>>

sumVars == <<aggregated, summary>>

lockVars == <<mu, goroutines>>

progVars == <<pmu, callers>>

auxVars == <<sumVars, lockVars, progVars>>

vars == <<allocVars, capVars, mgrVars, collVars, orchVars, aggVars, auxVars, planVars, daemonVars>>

(***************************************************************************)
(* Go maps: a map is a function whose domain is the set of present keys.   *)
(***************************************************************************)
EmptyMap == <<>>

MapHas(m, k) == k \in DOMAIN m

MapGet(m, k, zero) == IF k \in DOMAIN m THEN m[k] ELSE zero

MapPut(m, k, v) == [x \in (DOMAIN m) \cup {k} |-> IF x = k THEN v ELSE m[x]]

MapDelete(m, k) == [x \in (DOMAIN m) \ {k} |-> m[x]]

(***************************************************************************)
(* Port allocator                                                          *)
(***************************************************************************)
\* The first port of the daemon's range (the configuration default).
startPort == 5201

\* The number of ports of the modelled range beyond the first.
PortSpan == 2

endPort == startPort + PortSpan

PortRange == startPort..endPort

\* Port numbers a caller may pass: the range and one port outside it.
PortInputs == startPort..(endPort + 1)

\* Test ids a caller may pass; "" is the zero value of a Go string.
AllocTestIDs == {"", "t1", "t2"}

\* The longest port list handed to ReleasePorts.
MaxReleaseLen == 2

NoAllocRet == [op |-> "none", arg |-> "", ok |-> TRUE, ports |-> <<>>]

InitAlloc ==
    /\ allocatedPorts = {}
    /\ portToTestID = EmptyMap
    /\ testIDToPort = EmptyMap
    /\ allocRet = NoAllocRet
    /\ firstPort = EmptyMap

RECURSIVE FreeFromBelowEnd(_, _)
FreeFromBelowEnd(port, allocated) ==
    IF port >= endPort THEN <<>>
    ELSE IF port \notin allocated
         THEN <<port>> \o FreeFromBelowEnd(port + 1, allocated)
         ELSE FreeFromBelowEnd(port + 1, allocated)

\* The free ports of the range, lowest first, as the scans of AllocatePort
\* and AllocatePorts meet them.
RECURSIVE FreeFrom(_, _)
FreeFrom(port, allocated) ==
    IF port > endPort THEN <<>>
    ELSE IF port \notin allocated
         THEN <<port>> \o FreeFrom(port + 1, allocated)
         ELSE FreeFrom(port + 1, allocated)

AllocatePort(testID) ==
    IF MapHas(testIDToPort, testID)
    THEN /\ allocRet' = [op |-> "AllocatePort", arg |-> testID, ok |-> TRUE,
                         ports |-> <<testIDToPort[testID]>>]
         /\ UNCHANGED <<allocatedPorts, portToTestID, testIDToPort>>
    ELSE LET free == FreeFrom(startPort, allocatedPorts) IN
         IF free # <<>>
         THEN /\ allocatedPorts' = allocatedPorts \cup {free[1]}
              /\ portToTestID' = MapPut(portToTestID, free[1], testID)
              /\ testIDToPort' = MapPut(testIDToPort, testID, free[1])
              /\ allocRet' = [op |-> "AllocatePort", arg |-> testID, ok |-> TRUE,
                              ports |-> <<free[1]>>]
         ELSE /\ allocRet' = [op |-> "AllocatePort", arg |-> testID, ok |-> FALSE, ports |-> <<>>]
              /\ UNCHANGED <<allocatedPorts, portToTestID, testIDToPort>>

AllocatePortsMarkShort(allocated, ports) ==
    allocated \cup {ports[i] : i \in 1..(Len(ports) - 1)}

\* The ports AllocatePorts marks in use: only the in-use set is written.
AllocatePortsMark(allocated, ports) ==
    allocated \cup {ports[i] : i \in 1..Len(ports)}

AllocatePorts(count) ==
    LET free == FreeFrom(startPort, allocatedPorts)
        ports == SubSeq(free, 1, IF Len(free) < count THEN Len(free) ELSE count)
    IN  IF Len(ports) < count
        THEN /\ allocRet' = [op |-> "AllocatePorts", arg |-> count, ok |-> FALSE, ports |-> <<>>]
             /\ UNCHANGED <<allocatedPorts, portToTestID, testIDToPort>>
        ELSE /\ allocatedPorts' = AllocatePortsMark(allocatedPorts, ports)
             /\ allocRet' = [op |-> "AllocatePorts", arg |-> count, ok |-> TRUE, ports |-> ports]
             /\ UNCHANGED <<portToTestID, testIDToPort>>

ReleasePortKeepsInUse(testID) ==
    IF ~MapHas(testIDToPort, testID)
    THEN /\ allocRet' = [op |-> "ReleasePort", arg |-> testID, ok |-> FALSE, ports |-> <<>>]
         /\ UNCHANGED <<allocatedPorts, portToTestID, testIDToPort>>
    ELSE LET port == testIDToPort[testID] IN
         /\ portToTestID' = MapDelete(portToTestID, port)
         /\ testIDToPort' = MapDelete(testIDToPort, testID)
         /\ allocRet' = [op |-> "ReleasePort", arg |-> testID, ok |-> TRUE, ports |-> <<port>>]
         /\ UNCHANGED allocatedPorts

ReleasePort(testID) ==
    IF ~MapHas(testIDToPort, testID)
    THEN /\ allocRet' = [op |-> "ReleasePort", arg |-> testID, ok |-> FALSE, ports |-> <<>>]
         /\ UNCHANGED <<allocatedPorts, portToTestID, testIDToPort>>
    ELSE LET port == testIDToPort[testID] IN
         /\ allocatedPorts' = allocatedPorts \ {port}
         /\ portToTestID' = MapDelete(portToTestID, port)
         /\ testIDToPort' = MapDelete(testIDToPort, testID)
         /\ allocRet' = [op |-> "ReleasePort", arg |-> testID, ok |-> TRUE, ports |-> <<port>>]

\* The three deletes shared by ReleasePortByNumber and ReleasePorts; the test
\* id of a port without a mapping reads as "".
ReleaseNumber(a, port) ==
    LET testID == MapGet(a.p2t, port, "") IN
    [alloc |-> a.alloc \ {port},
     p2t |-> MapDelete(a.p2t, port),
     t2p |-> MapDelete(a.t2p, testID)]

ReleasePortByNumber(port) ==
    IF port \notin allocatedPorts
    THEN /\ allocRet' = [op |-> "ReleasePortByNumber", arg |-> port, ok |-> FALSE, ports |-> <<>>]
         /\ UNCHANGED <<allocatedPorts, portToTestID, testIDToPort>>
    ELSE LET a == ReleaseNumber([alloc |-> allocatedPorts, p2t |-> portToTestID,
                                 t2p |-> testIDToPort], port) IN
         /\ allocatedPorts' = a.alloc
         /\ portToTestID' = a.p2t
         /\ testIDToPort' = a.t2p
         /\ allocRet' = [op |-> "ReleasePortByNumber", arg |-> port, ok |-> TRUE, ports |-> <<port>>]

RECURSIVE ReleaseEach(_, _)
ReleaseEach(a, ports) ==
    IF ports = <<>> THEN a
    ELSE ReleaseEach(IF Head(ports) \in a.alloc
                     THEN ReleaseNumber(a, Head(ports))
                     ELSE a,
                     Tail(ports))

ReleasePorts(ports) ==
    LET a == ReleaseEach([alloc |-> allocatedPorts, p2t |-> portToTestID,
                          t2p |-> testIDToPort], ports) IN
    /\ allocatedPorts' = a.alloc
    /\ portToTestID' = a.p2t
    /\ testIDToPort' = a.t2p
    /\ allocRet' = [op |-> "ReleasePorts", arg |-> ports, ok |-> TRUE, ports |-> ports]

ReleaseAll ==
    /\ allocatedPorts' = {}
    /\ portToTestID' = EmptyMap
    /\ testIDToPort' = EmptyMap
    /\ allocRet' = [op |-> "ReleaseAll", arg |-> "", ok |-> TRUE, ports |-> <<>>]

GetAllocatedCount == Cardinality(allocatedPorts)

GetCapacity == endPort - startPort + 1

GetAvailableCountOffByOne == (endPort - startPort) - Cardinality(allocatedPorts)

GetAvailableCount == (endPort - startPort + 1) - Cardinality(allocatedPorts)

PortLists == UNION {[1..n -> PortInputs] : n \in 0..MaxReleaseLen}

nonAllocVars == <<capVars, mgrVars, collVars, orchVars, aggVars, auxVars, planVars, daemonVars>>

\* firstPort after a release of the ports in `ports`: the ids whose first
\* port is among them are forgotten.
ForgetPorts(ports) == [t \in {x \in DOMAIN firstPort : firstPort[x] \notin ports} |-> firstPort[t]]

DoAllocatePort ==
    \E t \in AllocTestIDs :
        /\ AllocatePort(t)
        /\ firstPort' = IF allocRet'.ok /\ ~MapHas(firstPort, t)
                         THEN MapPut(firstPort, t, allocRet'.ports[1])
                         ELSE firstPort
        /\ UNCHANGED nonAllocVars

DoAllocatePorts ==
    \E count \in 0..(GetCapacity + 1) :
        AllocatePorts(count) /\ UNCHANGED <<firstPort, nonAllocVars>>

DoReleasePort ==
    \E t \in AllocTestIDs :
        /\ ReleasePort(t)
        /\ firstPort' = IF allocRet'.ok THEN MapDelete(firstPort, t) ELSE firstPort
        /\ UNCHANGED nonAllocVars

DoReleasePortByNumber ==
    \E p \in PortInputs :
        /\ ReleasePortByNumber(p)
        /\ firstPort' = IF allocRet'.ok THEN ForgetPorts({p}) ELSE firstPort
        /\ UNCHANGED nonAllocVars

DoReleasePorts ==
    \E ports \in PortLists :
        /\ ReleasePorts(ports)
        /\ firstPort' = ForgetPorts({ports[i] : i \in 1..Len(ports)} \cap allocatedPorts)
        /\ UNCHANGED nonAllocVars

DoReleaseAll == ReleaseAll /\ firstPort' = EmptyMap /\ UNCHANGED nonAllocVars

NextAlloc ==
    \/ DoAllocatePort
    \/ DoAllocatePorts
    \/ DoReleasePort
    \/ DoReleasePortByNumber
    \/ DoReleasePorts
    \/ DoReleaseAll

(***************************************************************************)
(* Capacity accountant                                                     *)
(***************************************************************************)
\* The largest max_processes a modelled daemon is configured with.
MaxCapacity == 4

\* The largest slot count passed to ReserveSlots / ReleaseSlots directly.
MaxCount == 4

NoCapRet == [op |-> "none", count |-> 0, ok |-> TRUE]

\* ReserveSlots fails when the request does not fit.
ReserveFails(used, count, max) == used + count > max

ReserveSlots(used, count) == used + count

ReleaseSlotsNoFloor(used, count) == used - count

\* ReleaseSlots floors the counter at zero.
ReleaseSlots(used, count) == IF used - count < 0 THEN 0 ELSE used - count

GetAvailableSlotsIgnoresUsed == maxProcesses

GetAvailableSlots == maxProcesses - usedSlots

GetUsedSlots == usedSlots

\* NewCapacityCalculator: max_processes is validated to be at least 1.
InitCap(maxChoices) ==
    /\ maxProcesses \in maxChoices
    /\ usedSlots = 0
    /\ capRet = NoCapRet

nonCapVars == <<allocVars, mgrVars, collVars, orchVars, aggVars, auxVars, planVars, daemonVars>>

CapReserve ==
    \E count \in 0..MaxCount :
        /\ IF ReserveFails(usedSlots, count, maxProcesses)
           THEN /\ capRet' = [op |-> "ReserveSlots", count |-> count, ok |-> FALSE]
                /\ UNCHANGED usedSlots
           ELSE /\ usedSlots' = ReserveSlots(usedSlots, count)
                /\ capRet' = [op |-> "ReserveSlots", count |-> count, ok |-> TRUE]
        /\ UNCHANGED <<maxProcesses, nonCapVars>>

CapRelease ==
    \E count \in 0..MaxCount :
        /\ usedSlots' = ReleaseSlots(usedSlots, count)
        /\ capRet' = [op |-> "ReleaseSlots", count |-> count, ok |-> TRUE]
        /\ UNCHANGED <<maxProcesses, nonCapVars>>

NextCap ==
    \/ CapReserve
    \/ CapRelease

(***************************************************************************)
(* Result collector                                                        *)
(***************************************************************************)
InitColl ==
    /\ results = EmptyMap
    /\ completed = 0
    /\ failed = 0

\* StoreResult on the collector value c: a result with an empty test id is
\* rejected; otherwise it is stored under its id and counted by its status.
StoreResult(c, testID, status) ==
    IF testID = ""
    THEN [c EXCEPT !.err = TRUE]
    ELSE [results |-> MapPut(c.results, testID, status),
          completed |-> IF status = "completed" THEN c.completed + 1 ELSE c.completed,
          failed |-> IF status = "failed" THEN c.failed + 1 ELSE c.failed,
          err |-> FALSE]

\* StoreIperfResult: the status is derived from the wrapper's Success flag.
StoreIperfResult(c, testID, success) ==
    StoreResult(c, testID, IF success THEN "completed" ELSE "failed")

Collector == [results |-> results, completed |-> completed, failed |-> failed,
              err |-> FALSE]

(***************************************************************************)
(* Process manager                                                         *)
(*                                                                         *)
(* procs[i] is the i-th ProcessInfo created, with the state of its         *)
(* subprocess and of the task started for it:                              *)
(*   server (monitorProcess): wait -> cleanup -> done                      *)
(*   client (runClient):      run -> store -> cleanup -> done              *)
(* "wait" and "run" last as long as the subprocess lives; a cancel that    *)
(* arrives in these positions kills the subprocess (killed), a later one   *)
(* finds it gone and changes nothing.  Host is kept until Run has built    *)
(* the command line, err/success from Run's return until the result is     *)
(* stored.  The maps `processes` and `servers` hold indices into procs     *)
(* (pointer identity).                                                     *)
(***************************************************************************)
\* The number of processes accepted over a run of the model; a start that
\* would be accepted beyond it is not taken.
MaxProcs == 2

\* max_processes of the daemon whose process manager is modelled.
MgrCapacity == 2

\* Server ports and client test ids passed to the manager.
ServerPorts == {startPort, startPort + 1}

ClientTestIDs == {"", "t1"}

\* Hosts of client targets; "" makes the wrapper's BuildCommand fail.
Hosts == {"", "10.0.0.2"}

ServerTestID(port) == "server-" \o ToString(port)

ProcessKeys == ClientTestIDs \cup {ServerTestID(p) : p \in ServerPorts}

NoMgrRet == [op |-> "none", arg |-> "", err |-> "nil"]

TaskStep == [op |-> "task", arg |-> "", err |-> "nil"]

InitMgr ==
    /\ processes = EmptyMap
    /\ servers = EmptyMap
    /\ procs = <<>>
    /\ stoppedAll = FALSE
    /\ mgrRet = NoMgrRet

\* ProcessInfo.Cancel(): the context is done; a live subprocess is killed.
Cancel(ps, i) ==
    [ps EXCEPT ![i].killed = @ \/ ps[i].pos \in {"wait", "run"}]

RECURSIVE CancelEach(_, _)
CancelEach(ps, ids) ==
    IF ids = {} THEN ps
    ELSE LET i == CHOOSE x \in ids : TRUE IN CancelEach(Cancel(ps, i), ids \ {i})

RECURSIVE DeleteKeys(_, _)
DeleteKeys(m, keys) ==
    IF keys = {} THEN m
    ELSE LET k == CHOOSE x \in keys : TRUE IN DeleteKeys(MapDelete(m, k), keys \ {k})

RECURSIVE ReleaseTimes(_, _)
ReleaseTimes(used, n) ==
    IF n = 0 THEN used ELSE ReleaseTimes(ReleaseSlots(used, 1), n - 1)

\* The error StartServer returns.
StartServerErr(port, spawnOK) ==
    IF MapHas(servers, port) THEN "already running"
    ELSE IF ReserveFails(usedSlots, 1, maxProcesses) THEN "insufficient capacity"
    ELSE IF ~spawnOK THEN "failed to start"
    ELSE "nil"

StartServer(port, spawnOK) ==
    /\ IF MapHas(servers, port)
       THEN /\ UNCHANGED <<processes, servers, procs, usedSlots>>
       ELSE IF ReserveFails(usedSlots, 1, maxProcesses)
       THEN /\ UNCHANGED <<processes, servers, procs, usedSlots>>
       ELSE IF ~spawnOK
       THEN /\ usedSlots' = ReleaseSlots(ReserveSlots(usedSlots, 1), 1)
            /\ UNCHANGED <<processes, servers, procs>>
       ELSE LET id == Len(procs) + 1
                processInfo == [TestID |-> ServerTestID(port), Port |-> port,
                                Mode |-> "server", Host |-> "",
                                killed |-> FALSE, pos |-> "wait", success |-> FALSE,
                                err |-> FALSE, stored |-> 0]
            IN /\ Len(procs) < MaxProcs
               /\ usedSlots' = ReserveSlots(usedSlots, 1)
               /\ procs' = Append(procs, processInfo)
               /\ servers' = MapPut(servers, port, id)
               /\ processes' = MapPut(processes, processInfo.TestID, id)

\* The error StartClient returns.
StartClientErr(testID) ==
    IF MapHas(processes, testID) THEN "already running"
    ELSE IF ReserveFails(usedSlots, 1, maxProcesses) THEN "insufficient capacity"
    ELSE "nil"

StartClientReservesFirst(testID, host, port) ==
    /\ IF ReserveFails(usedSlots, 1, maxProcesses)
       THEN /\ UNCHANGED <<processes, procs, usedSlots>>
       ELSE IF MapHas(processes, testID)
       THEN /\ usedSlots' = ReserveSlots(usedSlots, 1)
            /\ UNCHANGED <<processes, procs>>
       ELSE LET id == Len(procs) + 1
                processInfo == [TestID |-> testID, Port |-> port,
                                Mode |-> "client", Host |-> host,
                                killed |-> FALSE, pos |-> "run", success |-> FALSE,
                                err |-> FALSE, stored |-> 0]
            IN /\ Len(procs) < MaxProcs
               /\ usedSlots' = ReserveSlots(usedSlots, 1)
               /\ procs' = Append(procs, processInfo)
               /\ processes' = MapPut(processes, testID, id)
    /\ UNCHANGED servers

StartClient(testID, host, port) ==
    /\ IF MapHas(processes, testID)
       THEN /\ UNCHANGED <<processes, procs, usedSlots>>
       ELSE IF ReserveFails(usedSlots, 1, maxProcesses)
       THEN /\ UNCHANGED <<processes, procs, usedSlots>>
       ELSE LET id == Len(procs) + 1
                processInfo == [TestID |-> testID, Port |-> port,
                                Mode |-> "client", Host |-> host,
                                killed |-> FALSE, pos |-> "run", success |-> FALSE,
                                err |-> FALSE, stored |-> 0]
            IN /\ Len(procs) < MaxProcs
               /\ usedSlots' = ReserveSlots(usedSlots, 1)
               /\ procs' = Append(procs, processInfo)
               /\ processes' = MapPut(processes, testID, id)
    /\ UNCHANGED servers

\* The error StopProcess returns.
StopProcessErr(testID) == IF MapHas(processes, testID) THEN "nil" ELSE "not found"

StopProcess(testID) ==
    IF ~MapHas(processes, testID)
    THEN /\ UNCHANGED <<processes, servers, procs, usedSlots>>
    ELSE LET id == processes[testID] IN
         /\ procs' = Cancel(procs, id)
         /\ servers' = IF procs[id].Mode = "server"
                       THEN MapDelete(servers, procs[id].Port) ELSE servers
         /\ processes' = MapDelete(processes, testID)
         /\ usedSlots' = ReleaseSlots(usedSlots, 1)

StopAllServers ==
    LET ids == {servers[p] : p \in DOMAIN servers} IN
    /\ procs' = CancelEach(procs, ids)
    /\ servers' = EmptyMap
    /\ processes' = DeleteKeys(processes, {procs[i].TestID : i \in ids})
    /\ usedSlots' = ReleaseTimes(usedSlots, Cardinality(DOMAIN servers))

StopAllClientsClearsServers ==
    LET keys == {k \in DOMAIN processes : procs[processes[k]].Mode = "client"} IN
    /\ procs' = CancelEach(procs, {processes[k] : k \in keys})
    /\ processes' = DeleteKeys(processes, keys)
    /\ usedSlots' = ReleaseTimes(usedSlots, Cardinality(keys))
    /\ servers' = EmptyMap

StopAllClients ==
    LET keys == {k \in DOMAIN processes : procs[processes[k]].Mode = "client"} IN
    /\ procs' = CancelEach(procs, {processes[k] : k \in keys})
    /\ processes' = DeleteKeys(processes, keys)
    /\ usedSlots' = ReleaseTimes(usedSlots, Cardinality(keys))
    /\ UNCHANGED servers

StopAll ==
    LET count == Cardinality(DOMAIN processes) IN
    /\ procs' = CancelEach(procs, {processes[k] : k \in DOMAIN processes})
    /\ processes' = EmptyMap
    /\ servers' = EmptyMap
    /\ usedSlots' = ReleaseSlots(usedSlots, count)

GetRunningCount == Cardinality(DOMAIN processes)

\* monitorProcess, first half: Cmd.Wait returns once the server subprocess
\* has ended, by itself or killed.
MonitorWait(i) ==
    /\ procs[i].Mode = "server" /\ procs[i].pos = "wait"
    /\ procs' = [procs EXCEPT ![i].pos = "cleanup"]
    /\ UNCHANGED <<processes, servers, usedSlots>>

\* monitorProcess, second half, under the manager lock.
MonitorCleanup(i) ==
    /\ procs[i].Mode = "server" /\ procs[i].pos = "cleanup"
    /\ servers' = MapDelete(servers, procs[i].Port)
    /\ processes' = MapDelete(processes, procs[i].TestID)
    /\ usedSlots' = ReleaseSlots(usedSlots, 1)
    /\ procs' = [procs EXCEPT ![i].pos = "done"]

\* Wrapper.Run as runClient sees it: BuildCommand fails without a host
\* (err != nil); a killed subprocess, a non-zero exit, an expired deadline or
\* unparseable output give Success = false; otherwise Success = true.
RunOutcomes(p) ==
    IF p.Host = "" THEN {[err |-> TRUE, success |-> FALSE]}
    ELSE IF p.killed THEN {[err |-> FALSE, success |-> FALSE]}
    ELSE {[err |-> FALSE, success |-> TRUE], [err |-> FALSE, success |-> FALSE]}

\* runClient, first part: m.iperf.Run returns.
ClientRun(i) ==
    /\ procs[i].Mode = "client" /\ procs[i].pos = "run"
    /\ \E o \in RunOutcomes(procs[i]) :
           procs' = [procs EXCEPT ![i].pos = "store", ![i].Host = "",
                                  ![i].err = o.err, ![i].success = o.success]
    /\ UNCHANGED <<processes, servers, usedSlots>>

\* What runClient hands to the collector: a failure record when Run returned
\* an error, else Run's result.
RunClientStore(c, p) ==
    IF p.err THEN StoreIperfResult(c, p.TestID, FALSE)
    ELSE StoreIperfResult(c, p.TestID, p.success)

\* runClient, second part: the result goes to the collector, whose error is
\* dropped.
ClientStore(i) ==
    /\ procs[i].Mode = "client" /\ procs[i].pos = "store"
    /\ LET c == RunClientStore(Collector, procs[i]) IN
       /\ results' = c.results
       /\ completed' = c.completed
       /\ failed' = c.failed
       /\ procs' = [procs EXCEPT ![i].pos = "cleanup",
                                 ![i].err = FALSE, ![i].success = FALSE,
                                 ![i].stored = IF c.err THEN @ ELSE @ + 1]
    /\ UNCHANGED <<processes, servers, usedSlots>>

\* runClient, last part, under the manager lock.
ClientCleanup(i) ==
    /\ procs[i].Mode = "client" /\ procs[i].pos = "cleanup"
    /\ processes' = MapDelete(processes, procs[i].TestID)
    /\ usedSlots' = ReleaseSlots(usedSlots, 1)
    /\ procs' = [procs EXCEPT ![i].pos = "done"]
    /\ UNCHANGED servers

nonMgrVars == <<allocVars, maxProcesses, capRet, orchVars, aggVars, auxVars, planVars, daemonVars>>

DoStartServer ==
    \E port \in ServerPorts, spawnOK \in BOOLEAN :
        /\ StartServer(port, spawnOK)
        /\ mgrRet' = [op |-> "StartServer", arg |-> port,
                      err |-> StartServerErr(port, spawnOK)]
        /\ stoppedAll' = FALSE
        /\ UNCHANGED <<nonMgrVars, collVars>>

DoStartClient ==
    \E testID \in ClientTestIDs, host \in Hosts :
        /\ StartClient(testID, host, startPort)
        /\ mgrRet' = [op |-> "StartClient", arg |-> testID, err |-> StartClientErr(testID)]
        /\ stoppedAll' = FALSE
        /\ UNCHANGED <<nonMgrVars, collVars>>

DoStopProcess ==
    \E testID \in ProcessKeys :
        /\ StopProcess(testID)
        /\ mgrRet' = [op |-> "StopProcess", arg |-> testID, err |-> StopProcessErr(testID)]
        /\ UNCHANGED <<nonMgrVars, collVars, stoppedAll>>

DoStopAllServers ==
    /\ StopAllServers
    /\ mgrRet' = [op |-> "StopAllServers", arg |-> "", err |-> "nil"]
    /\ UNCHANGED <<nonMgrVars, collVars, stoppedAll>>

DoStopAllClients ==
    /\ StopAllClients
    /\ mgrRet' = [op |-> "StopAllClients", arg |-> "", err |-> "nil"]
    /\ UNCHANGED <<nonMgrVars, collVars, stoppedAll>>

DoStopAll ==
    /\ StopAll
    /\ mgrRet' = [op |-> "StopAll", arg |-> "", err |-> "nil"]
    /\ stoppedAll' = TRUE
    /\ UNCHANGED <<nonMgrVars, collVars>>

DoMonitorWait ==
    \E i \in 1..Len(procs) :
        MonitorWait(i) /\ mgrRet' = TaskStep /\ UNCHANGED <<nonMgrVars, collVars, stoppedAll>>

DoMonitorCleanup ==
    \E i \in 1..Len(procs) :
        MonitorCleanup(i) /\ mgrRet' = TaskStep /\ UNCHANGED <<nonMgrVars, collVars, stoppedAll>>

DoClientRun ==
    \E i \in 1..Len(procs) :
        ClientRun(i) /\ mgrRet' = TaskStep /\ UNCHANGED <<nonMgrVars, collVars, stoppedAll>>

DoClientStore ==
    \E i \in 1..Len(procs) :
        ClientStore(i) /\ mgrRet' = TaskStep /\ UNCHANGED <<nonMgrVars, stoppedAll>>

DoClientCleanup ==
    \E i \in 1..Len(procs) :
        ClientCleanup(i) /\ mgrRet' = TaskStep /\ UNCHANGED <<nonMgrVars, collVars, stoppedAll>>

NextMgr ==
    \/ DoStartServer
    \/ DoStartClient
    \/ DoStopProcess
    \/ DoStopAllServers
    \/ DoStopAllClients
    \/ DoStopAll
    \/ DoMonitorWait
    \/ DoMonitorCleanup
    \/ DoClientRun
    \/ DoClientStore
    \/ DoClientCleanup

\* StartClient takes any test id the request carries, also one that has the
\* form of a server's key.
ServerKeyTestIDs == {ServerTestID(p) : p \in ServerPorts}

DoStartClientServerKey ==
    \E testID \in ServerKeyTestIDs, host \in Hosts :
        /\ StartClient(testID, host, startPort)
        /\ mgrRet' = [op |-> "StartClient", arg |-> testID, err |-> StartClientErr(testID)]
        /\ stoppedAll' = FALSE
        /\ UNCHANGED <<nonMgrVars, collVars>>

NextMgrKeys ==
    \/ DoStartServer
    \/ DoStartClientServerKey
    \/ DoStopProcess
    \/ DoStopAllClients
    \/ DoMonitorWait
    \/ DoMonitorCleanup
    \/ DoClientRun
    \/ DoClientStore
    \/ DoClientCleanup

(***************************************************************************)
(* Topology planner                                                        *)
(***************************************************************************)
\* The most nodes a modelled registry holds.
MaxNodes == 3

\* Node ids in the order they are added to the registry, and their addresses.
NodeIDs == <<"a", "b", "c", "d", "e">>

NodeIP(id) == "10.0.0." \o id

\* The first server port the planner hands out.
portCounterStart == 5201

\* The registries of the given sizes: the first ids in order.
NodeLists(sizes) == {SubSeq(NodeIDs, 1, n) : n \in sizes}

Reversed(list) == [i \in 1..Len(list) |-> list[Len(list) + 1 - i]]

\* The profile registry's names and the configured default profile.
ProfileRegistry == {"tcp", "udp", "fast"}

DefaultProfile == "tcp"

\* The registered profiles' options that reach the command line as flags,
\* and their durations in seconds.  The profile udp has the TCP options
\* set too: Validate checks the duration and the parallel streams only.
TestProfiles ==
    [name \in ProfileRegistry |->
        [Bidirectional |-> name = "fast", Reverse |-> name = "udp",
         Duration |-> IF name = "tcp" THEN 5 ELSE IF name = "udp" THEN 30 ELSE 12,
         Protocol |-> IF name = "udp" THEN "udp" ELSE "tcp",
         CongestionControl |-> IF name = "fast" THEN "" ELSE "cubic",
         MSS |-> IF name = "fast" THEN 0 ELSE 1400,
         NoDelay |-> name # "fast"]]

\* ConvertProfileToProto on the controller, convertProfileToIperfConfig on
\* the daemon: both copy the options field by field.
ConvertProfileToProto(name) ==
    [Name |-> name,
     DurationSeconds |-> TestProfiles[name].Duration,
     Protocol |-> IF TestProfiles[name].Protocol = "udp" THEN "PROTOCOL_UDP"
                  ELSE "PROTOCOL_TCP",
     Bidirectional |-> TestProfiles[name].Bidirectional,
     Reverse |-> TestProfiles[name].Reverse,
     CongestionControl |-> TestProfiles[name].CongestionControl,
     Mss |-> TestProfiles[name].MSS,
     NoDelay |-> TestProfiles[name].NoDelay]

convertProfileToIperfConfig(profile) ==
    [Protocol |-> IF profile.Protocol = "PROTOCOL_UDP" THEN "udp" ELSE "tcp",
     Duration |-> profile.DurationSeconds,
     Bidirectional |-> profile.Bidirectional, Reverse |-> profile.Reverse,
     CongestionControl |-> profile.CongestionControl,
     MSS |-> profile.Mss,
     NoDelay |-> profile.NoDelay]

\* Wrapper.BuildCommand for a client: the host is required; the flags follow
\* the configuration's fields one by one.  The configuration's protocol is
\* not among the fields it looks at.
BuildCommand(host, port, config) ==
    IF host = "" THEN [err |-> TRUE, args |-> <<>>]
    ELSE [err |-> FALSE,
          args |-> <<"-c", host, "-p", ToString(port)>>
                   \o (IF config.Duration > 0 THEN <<"-t", ToString(config.Duration)>>
                       ELSE <<>>)
                   \o (IF config.Bidirectional THEN <<"--bidir">> ELSE <<>>)
                   \o (IF config.Reverse THEN <<"-R">> ELSE <<>>)
                   \o (IF config.CongestionControl # ""
                       THEN <<"-C", config.CongestionControl>> ELSE <<>>)
                   \o (IF config.MSS > 0 THEN <<"-M", ToString(config.MSS)>> ELSE <<>>)
                   \o (IF config.NoDelay THEN <<"-N">> ELSE <<>>)
                   \o <<"-J">>]

\* Overrides a configuration may list: one with a single node, two that
\* share the pairs of a and b, and one whose profile is not registered.
OverrideChoices ==
    {[Nodes |-> <<"a">>, Profile |-> "udp"],
     [Nodes |-> <<"a", "b">>, Profile |-> "udp"],
     [Nodes |-> <<"b", "a", "c">>, Profile |-> "fast"],
     [Nodes |-> <<"b", "c">>, Profile |-> "nope"]}

\* The most overrides a modelled configuration lists.
MaxOverrides == 2

OverrideConfigs == UNION {[1..n -> OverrideChoices] : n \in 0..MaxOverrides}

\* The key of Generator.overrides: fmt.Sprintf("%s:%s", sourceID, destID).
PairKey(sourceID, destID) == sourceID \o ":" \o destID

AddOverride(overrides, sourceID, destID, profileName) ==
    MapPut(overrides, PairKey(sourceID, destID), profileName)

\* The two nested loops runTest runs over one override's node list.
RECURSIVE OverrideLoop(_, _, _, _, _)
OverrideLoop(overrides, nodes, profile, i, j) ==
    IF i > Len(nodes) THEN overrides
    ELSE IF j > Len(nodes) THEN OverrideLoop(overrides, nodes, profile, i + 1, 1)
    ELSE IF i = j THEN OverrideLoop(overrides, nodes, profile, i, j + 1)
    ELSE OverrideLoop(AddOverride(overrides, nodes[i], nodes[j], profile),
                      nodes, profile, i, j + 1)

ApplyLastOverrideOnly(overrides, cfg) ==
    IF cfg = <<>> THEN overrides
    ELSE LET override == cfg[Len(cfg)] IN
         IF Len(override.Nodes) >= 2
         THEN OverrideLoop(overrides, override.Nodes, override.Profile, 1, 1)
         ELSE overrides

\* runTest's loop over the configured overrides: one with fewer than two
\* nodes is skipped.
RECURSIVE ApplyOverrides(_, _)
ApplyOverrides(overrides, cfg) ==
    IF cfg = <<>> THEN overrides
    ELSE LET override == Head(cfg) IN
         ApplyOverrides(IF Len(override.Nodes) >= 2
                        THEN OverrideLoop(overrides, override.Nodes, override.Profile, 1, 1)
                        ELSE overrides,
                        Tail(cfg))

\* getProfileForPair: the override's profile when the pair has one and the
\* registry knows it, else the default profile.  A profile is modelled by
\* its name.
getProfileForPair(overrides, sourceID, destID) ==
    LET key == PairKey(sourceID, destID) IN
    IF MapHas(overrides, key) /\ overrides[key] \in ProfileRegistry
    THEN overrides[key]
    ELSE DefaultProfile

TestIDOf(testCounter, sourceID, destID) ==
    "test-" \o ToString(testCounter) \o "-" \o sourceID \o "-to-" \o destID

RECURSIVE MeshLoopWithReverse(_, _, _, _, _)
MeshLoopWithReverse(nodes, overrides, i, j, pairs) ==
    IF i > Len(nodes) THEN pairs
    ELSE IF j > Len(nodes) THEN MeshLoopWithReverse(nodes, overrides, i + 1, 1, pairs)
    ELSE IF nodes[i] = nodes[j] THEN MeshLoopWithReverse(nodes, overrides, i, j + 1, pairs)
    ELSE LET profile == getProfileForPair(overrides, nodes[i], nodes[j])
             forward == Append(pairs, [TestID |-> TestIDOf(Len(pairs) + 1, nodes[i], nodes[j]),
                                       Source |-> nodes[i],
                                       Destination |-> nodes[j],
                                       Profile |-> profile])
         IN MeshLoopWithReverse(nodes, overrides, i, j + 1,
                IF TestProfiles[profile].Bidirectional
                THEN Append(forward, [TestID |-> TestIDOf(Len(forward) + 1, nodes[j], nodes[i]),
                                      Source |-> nodes[j],
                                      Destination |-> nodes[i],
                                      Profile |-> profile])
                ELSE forward)

\* The two nested loops of GenerateFullMesh over the registry's node list:
\* i is the source's index, j the destination's, pairs the list so far
\* (testCounter is its length).
RECURSIVE MeshLoop(_, _, _, _, _)
MeshLoop(nodes, overrides, i, j, pairs) ==
    IF i > Len(nodes) THEN pairs
    ELSE IF j > Len(nodes) THEN MeshLoop(nodes, overrides, i + 1, 1, pairs)
    ELSE IF nodes[i] = nodes[j] THEN MeshLoop(nodes, overrides, i, j + 1, pairs)
    ELSE MeshLoop(nodes, overrides, i, j + 1,
                  Append(pairs, [TestID |-> TestIDOf(Len(pairs) + 1, nodes[i], nodes[j]),
                                 Source |-> nodes[i],
                                 Destination |-> nodes[j],
                                 Profile |-> getProfileForPair(overrides, nodes[i], nodes[j])]))

RECURSIVE PortLoopSameBase(_, _, _, _)
PortLoopSameBase(nodes, k, portCounter, serverPorts) ==
    IF k > Len(nodes) THEN serverPorts
    ELSE LET numPorts == Len(nodes) - 1 IN
         PortLoopSameBase(nodes, k + 1, portCounter,
                          MapPut(serverPorts, nodes[k],
                                 [i \in 1..numPorts |-> portCounter + i - 1]))

\* The port loop of GenerateFullMesh: N-1 consecutive ports per node.
RECURSIVE PortLoop(_, _, _, _)
PortLoop(nodes, k, portCounter, serverPorts) ==
    IF k > Len(nodes) THEN serverPorts
    ELSE LET numPorts == Len(nodes) - 1 IN
         PortLoop(nodes, k + 1, portCounter + numPorts,
                  MapPut(serverPorts, nodes[k],
                         [i \in 1..numPorts |-> portCounter + i - 1]))

PairsFromByDestination(pairs, sourceID) ==
    SelectSeq(pairs, LAMBDA p : p.Destination = sourceID)

PairsFrom(pairs, sourceID) == SelectSeq(pairs, LAMBDA p : p.Source = sourceID)

PairsTo(pairs, destID) == SelectSeq(pairs, LAMBDA p : p.Destination = destID)

GenerateFullMesh(nodes, overrides) ==
    IF Len(nodes) < 2 THEN [err |-> TRUE]
    ELSE LET pairs == MeshLoop(nodes, overrides, 1, 1, <<>>)
             sources == {pairs[k].Source : k \in 1..Len(pairs)}
         IN [err |-> FALSE,
             Pairs |-> pairs,
             ServerPorts |-> PortLoop(nodes, 1, portCounterStart, EmptyMap),
             ClientTests |-> [s \in sources |-> PairsFrom(pairs, s)]]

NoTopology == [err |-> TRUE]

\* The ids of the sources of the pairs whose destination is destID, in pair
\* order (sourceNodes in GenerateNodeTopologies).
SourceNodes(topo, destID) ==
    LET to == PairsTo(topo.Pairs, destID) IN [k \in 1..Len(to) |-> to[k].Source]

PortIndexAlwaysFirst(sourceNodes, sourceID) == 0

\* The first index of sourceID in a list of source ids, or -1.
PortIndex(sourceNodes, sourceID) ==
    IF \E i \in 1..Len(sourceNodes) : sourceNodes[i] = sourceID
    THEN (CHOOSE i \in 1..Len(sourceNodes) :
              /\ sourceNodes[i] = sourceID
              /\ \A h \in 1..(i - 1) : sourceNodes[h] # sourceID) - 1
    ELSE -1

\* sourceToPort of GenerateNodeTopologies: for i < len(ports) the i-th source
\* maps to ports[i]; a later entry for the same source overwrites.
SourceToPort(sourceNodes, ports) ==
    LET n == IF Len(sourceNodes) < Len(ports) THEN Len(sourceNodes) ELSE Len(ports)
    IN [s \in {sourceNodes[i] : i \in 1..n} |->
           ports[CHOOSE i \in 1..n :
                     /\ sourceNodes[i] = s
                     /\ \A h \in (i + 1)..n : sourceNodes[h] # s]]

\* The server assignments of one node; err when a source has no port.
ServerAssignments(topo, nodeID) ==
    LET ports == MapGet(topo.ServerPorts, nodeID, <<>>)
        to == PairsTo(topo.Pairs, nodeID)
        sourceToPort == SourceToPort(SourceNodes(topo, nodeID), ports)
    IN IF Len(ports) = 0 THEN [err |-> FALSE, list |-> <<>>]
       ELSE IF \E k \in 1..Len(to) : ~MapHas(sourceToPort, to[k].Source)
       THEN [err |-> TRUE, list |-> <<>>]
       ELSE [err |-> FALSE,
             list |-> [k \in 1..Len(to) |->
                          [SourceId |-> to[k].Source,
                           DestinationId |-> to[k].Destination,
                           DestinationIp |-> NodeIP(to[k].Destination),
                           DestinationPort |-> sourceToPort[to[k].Source],
                           Profile |-> to[k].Profile]]]

\* The client assignments of one node; err when a destination has no port
\* list or the source has no index in it.
ClientAssignments(topo, nodeID) ==
    LET from == MapGet(topo.ClientTests, nodeID, <<>>)
        destPorts(p) == MapGet(topo.ServerPorts, p.Destination, <<>>)
        portIndex(p) == PortIndex(SourceNodes(topo, p.Destination), p.Source)
    IN IF \E k \in 1..Len(from) :
              \/ Len(destPorts(from[k])) = 0
              \/ portIndex(from[k]) < 0
              \/ portIndex(from[k]) >= Len(destPorts(from[k]))
       THEN [err |-> TRUE, list |-> <<>>]
       ELSE [err |-> FALSE,
             list |-> [k \in 1..Len(from) |->
                          [SourceId |-> from[k].Source,
                           DestinationId |-> from[k].Destination,
                           DestinationIp |-> NodeIP(from[k].Destination),
                           DestinationPort |-> destPorts(from[k])[portIndex(from[k]) + 1],
                           Profile |-> from[k].Profile]]]

\* The orders in which a range loop may visit the keys of a Go map.
KeyOrders(m) ==
    {order \in [1..Cardinality(DOMAIN m) -> DOMAIN m] :
         \A i \in DOMAIN order, j \in DOMAIN order : i # j => order[i] # order[j]}

NoNodeTopologies == [err |-> FALSE, result |-> EmptyMap]

\* The first loops of GenerateNodeTopologies: an empty entry for every node
\* that occurs in a pair.
InitNodeTopologies(topo) ==
    LET nodeIDs == {topo.Pairs[k].Source : k \in 1..Len(topo.Pairs)} \cup
                   {topo.Pairs[k].Destination : k \in 1..Len(topo.Pairs)}
    IN [err |-> FALSE,
        result |-> [n \in nodeIDs |-> [ServerAssignments |-> <<>>,
                                      ClientAssignments |-> <<>>]]]

\* The loop over topology.ServerPorts, visiting the keys left in `order`:
\* the first error ends the function.
RECURSIVE ServerLoop(_, _, _)
ServerLoop(topo, order, result) ==
    IF order = <<>> THEN [err |-> FALSE, result |-> result]
    ELSE LET nodeID == Head(order)
             assignments == ServerAssignments(topo, nodeID)
         IN IF assignments.err THEN [err |-> TRUE, result |-> EmptyMap]
            ELSE ServerLoop(topo, Tail(order),
                            IF assignments.list = <<>> THEN result
                            ELSE [result EXCEPT ![nodeID].ServerAssignments =
                                                    @ \o assignments.list])

ClientLoopFirstKeyOnly(topo, order, result) ==
    IF order = <<>> THEN [err |-> FALSE, result |-> result]
    ELSE LET nodeID == Head(order)
             assignments == ClientAssignments(topo, nodeID)
         IN IF assignments.err THEN [err |-> TRUE, result |-> EmptyMap]
            ELSE [err |-> FALSE,
                  result |-> IF assignments.list = <<>> THEN result
                             ELSE [result EXCEPT ![nodeID].ClientAssignments =
                                                     @ \o assignments.list]]

\* The loop over topology.ClientTests, likewise.
RECURSIVE ClientLoop(_, _, _)
ClientLoop(topo, order, result) ==
    IF order = <<>> THEN [err |-> FALSE, result |-> result]
    ELSE LET nodeID == Head(order)
             assignments == ClientAssignments(topo, nodeID)
         IN IF assignments.err THEN [err |-> TRUE, result |-> EmptyMap]
            ELSE ClientLoop(topo, Tail(order),
                            IF assignments.list = <<>> THEN result
                            ELSE [result EXCEPT ![nodeID].ClientAssignments =
                                                    @ \o assignments.list])

\* GenerateNodeTopologies when its two map loops visit the keys in the
\* orders serverOrder and clientOrder.
GenerateNodeTopologies(topo, serverOrder, clientOrder) ==
    LET withServers == ServerLoop(topo, serverOrder, InitNodeTopologies(topo).result)
    IN IF withServers.err THEN withServers
       ELSE ClientLoop(topo, clientOrder, withServers.result)

\* The number of planning runs made over one configuration.
MaxRuns == 2

\* The controller's configuration is read; nothing is planned yet.
InitPlan(cfgs) ==
    /\ overrideCfg \in cfgs
    /\ plans = <<>>

\* A planning run has finished: GenerateFullMesh failed, or
\* GenerateNodeTopologies has returned.
PlanFinished(plan) == plan.stage = "done" \/ plan.topo.err

\* runTest applies the overrides and calls GenerateFullMesh.
DoGenerateFullMesh ==
    /\ Len(plans) < MaxRuns
    /\ IF plans = <<>> THEN TRUE ELSE PlanFinished(plans[Len(plans)])
    /\ plans' = Append(plans,
                       [topo |-> GenerateFullMesh(nodeList,
                                                  ApplyOverrides(EmptyMap, overrideCfg)),
                        nodeTopologies |-> NoNodeTopologies,
                        stage |-> "mesh"])
    /\ UNCHANGED overrideCfg

\* preparePhase calls GenerateNodeTopologies on the plan; its two map
\* loops visit the keys in some order each.
DoGenerateNodeTopologies ==
    /\ plans # <<>>
    /\ LET plan == plans[Len(plans)] IN
       /\ plan.stage = "mesh" /\ ~plan.topo.err
       /\ \E serverOrder \in KeyOrders(plan.topo.ServerPorts),
             clientOrder \in KeyOrders(plan.topo.ClientTests) :
              plans' = [plans EXCEPT ![Len(plans)] =
                           [plan EXCEPT !.stage = "done",
                                        !.nodeTopologies =
                                            GenerateNodeTopologies(plan.topo, serverOrder,
                                                                   clientOrder)]]
    /\ UNCHANGED overrideCfg

nonPlanVars == <<allocVars, capVars, mgrVars, collVars, orchVars, aggVars, auxVars, daemonVars>>

NextPlan ==
    \/ DoGenerateFullMesh /\ UNCHANGED nonPlanVars
    \/ DoGenerateNodeTopologies /\ UNCHANGED nonPlanVars

(***************************************************************************)
(* Daemon server                                                           *)
(*                                                                         *)
(* The RPC handlers of server.DaemonServer over the manager, the capacity  *)
(* accountant and the collector.  A handler that takes a lock once is one  *)
(* step; StartServers and StartClients take the manager's lock once per    *)
(* item, and GetResults with clear_after_retrieval takes the collector's   *)
(* lock twice, so these are one step per lock section, and the background  *)
(* tasks of the manager run between them.  The StopAll RPC only forwards   *)
(* to Manager.StopAll, which is part of the manager's specification.       *)
(***************************************************************************)
\* runtime.NumCPU() on the modelled host.
NumCPU == 1

calculateMaxProcesses(cpuCores) == cpuCores * 4

\* DetectCapacity: fails when the host's memory or interfaces cannot be
\* read; max_processes falls back to the CPU-based default when it is 0.
DetectCapacity(detectOK) ==
    IF ~detectOK THEN [err |-> TRUE, MaxProcesses |-> 0, AvailableProcesses |-> 0]
    ELSE LET maxProcs == IF maxProcesses = 0 THEN calculateMaxProcesses(NumCPU)
                         ELSE maxProcesses
         IN [err |-> FALSE,
             MaxProcesses |-> maxProcs,
             AvailableProcesses |-> maxProcs - usedSlots]

\* The pb.ProcessCapacity a response carries.
ProcessCapacity(capacity) ==
    [MaxProcesses |-> capacity.MaxProcesses,
     AvailableProcesses |-> capacity.AvailableProcesses]

NoRPC == [op |-> "none"]

NoRpcRet == [op |-> "none"]

HandlerStep == [op |-> "step"]

TaskRet == [op |-> "task"]

\* NewDaemonServer: the configured max_processes goes to the capacity
\* accountant and stays in the configuration.
InitDaemon ==
    /\ configMaxProcesses = maxProcesses
    /\ handler = NoRPC
    /\ rpcRet = NoRpcRet

nonDaemonVars == <<allocVars, capVars, mgrVars, collVars, orchVars, aggVars, auxVars, planVars>>

\* Initialize requests: without an override, and with the orchestrator's 200.
InitializeRequests == {[MaxProcesses |-> 0], [MaxProcesses |-> 200]}

DaemonInitialize ==
    \E req \in InitializeRequests, detectOK \in BOOLEAN :
        LET capacity == DetectCapacity(detectOK) IN
        /\ configMaxProcesses' = IF req.MaxProcesses > 0 THEN req.MaxProcesses
                                 ELSE configMaxProcesses
        /\ rpcRet' = [op |-> "Initialize", req |-> req,
                      resp |-> IF capacity.err
                               THEN [Success |-> FALSE,
                                     Capacity |-> ProcessCapacity(capacity)]
                               ELSE [Success |-> TRUE,
                                     Capacity |-> ProcessCapacity(capacity)]]
        /\ UNCHANGED <<handler, nonDaemonVars>>

\* PrepareTest requests: one without a topology, one with one assignment and
\* one with three.
TestPairMsg == [SourceId |-> "a", DestinationId |-> "b", DestinationPort |-> startPort]

PrepareRequests ==
    {[HasTopology |-> FALSE, ServerAssignments |-> <<>>, ClientAssignments |-> <<>>]}
        \cup
    {[HasTopology |-> TRUE, ServerAssignments |-> <<TestPairMsg>>,
      ClientAssignments |-> <<>>],
     [HasTopology |-> TRUE, ServerAssignments |-> <<TestPairMsg, TestPairMsg>>,
      ClientAssignments |-> <<TestPairMsg>>]}

PrepareTest(req, detectOK) ==
    IF ~req.HasTopology
    THEN [CanHandle |-> FALSE, Message |-> "topology is required"]
    ELSE LET serverCount == Len(req.ServerAssignments)
             clientCount == Len(req.ClientAssignments)
             totalRequired == serverCount + clientCount
             availableSlots == GetAvailableSlots
             canHandle == availableSlots >= totalRequired
             capacity == DetectCapacity(detectOK)
         IN IF capacity.err
            THEN [CanHandle |-> FALSE, Message |-> "failed to detect capacity"]
            ELSE [CanHandle |-> canHandle,
                  Message |-> IF canHandle THEN "sufficient capacity available"
                              ELSE "insufficient capacity"]

DaemonPrepareTest ==
    \E req \in PrepareRequests, detectOK \in BOOLEAN :
        /\ rpcRet' = [op |-> "PrepareTest", req |-> req, resp |-> PrepareTest(req, detectOK)]
        /\ UNCHANGED <<configMaxProcesses, handler, nonDaemonVars>>

\* GetStatus: an RPC error when the capacity cannot be detected.
GetStatus(detectOK) ==
    LET capacity == DetectCapacity(detectOK) IN
    [err |-> capacity.err,
     RunningProcesses |-> IF capacity.err THEN 0 ELSE GetRunningCount,
     CompletedTests |-> IF capacity.err THEN 0 ELSE completed,
     FailedTests |-> IF capacity.err THEN 0 ELSE failed,
     CurrentCapacity |-> ProcessCapacity(capacity)]

DaemonGetStatus ==
    \E detectOK \in BOOLEAN :
        /\ rpcRet' = [op |-> "GetStatus", req |-> <<>>, resp |-> GetStatus(detectOK)]
        /\ UNCHANGED <<configMaxProcesses, handler, nonDaemonVars>>

\* StartServers requests: up to two ports, possibly the same one twice.
StartServersRequests == UNION {[1..n -> ServerPorts] : n \in 0..2}

StartSuccessAllStarted(started, errors) == Len(errors) = 0

\* success := len(started) > 0
StartSuccess(started, errors) == Len(started) > 0

StartResponse(started, errors) ==
    [Success |-> StartSuccess(started, errors), Started |-> started, Errors |-> errors]

\* StartServers up to its loop; an empty request is refused at once.
DaemonStartServersBegin ==
    \E ports \in StartServersRequests :
        /\ handler.op = "none"
        /\ IF Len(ports) = 0
           THEN /\ rpcRet' = [op |-> "StartServers", req |-> ports,
                              resp |-> [Success |-> FALSE, Started |-> <<>>, Errors |-> <<>>]]
                /\ UNCHANGED handler
           ELSE /\ handler' = [op |-> "StartServers", req |-> ports, rest |-> ports,
                           started |-> <<>>, errors |-> <<>>]
                /\ rpcRet' = HandlerStep
        /\ UNCHANGED <<configMaxProcesses, nonDaemonVars>>

\* One iteration of the loop: StartServer on the next port; after the last
\* one the response is returned.
DaemonStartServersStep ==
    /\ handler.op = "StartServers"
    /\ \E spawnOK \in BOOLEAN :
           LET port == Head(handler.rest)
               err == StartServerErr(port, spawnOK)
               started == IF err = "nil" THEN Append(handler.started, port) ELSE handler.started
               errors == IF err = "nil" THEN handler.errors
                         ELSE Append(handler.errors, [Item |-> port, Err |-> err])
           IN /\ StartServer(port, spawnOK)
              /\ stoppedAll' = FALSE
              /\ IF Tail(handler.rest) = <<>>
                 THEN /\ handler' = NoRPC
                      /\ rpcRet' = [op |-> "StartServers", req |-> handler.req,
                                    resp |-> StartResponse(started, errors)]
                 ELSE /\ handler' = [handler EXCEPT !.rest = Tail(handler.rest),
                                            !.started = started, !.errors = errors]
                      /\ rpcRet' = HandlerStep
    /\ UNCHANGED <<configMaxProcesses, mgrRet, allocVars, maxProcesses, capRet,
                   collVars, orchVars, aggVars, auxVars, planVars>>

\* Test ids and targets of StartClients requests.
DaemonTestIDs == {"t1", "t2"}

ClientTargetMsgs ==
    {[TestId |-> t, DestinationIp |-> "10.0.0.2", DestinationPort |-> startPort] :
         t \in DaemonTestIDs}

StartClientsRequests == UNION {[1..n -> ClientTargetMsgs] : n \in 0..2}

DaemonStartClientsBegin ==
    \E targets \in StartClientsRequests :
        /\ handler.op = "none"
        /\ IF Len(targets) = 0
           THEN /\ rpcRet' = [op |-> "StartClients", req |-> targets,
                              resp |-> [Success |-> FALSE, Started |-> <<>>, Errors |-> <<>>]]
                /\ UNCHANGED handler
           ELSE /\ handler' = [op |-> "StartClients", req |-> targets, rest |-> targets,
                           started |-> <<>>, errors |-> <<>>]
                /\ rpcRet' = HandlerStep
        /\ UNCHANGED <<configMaxProcesses, nonDaemonVars>>

DaemonStartClientsStep ==
    /\ handler.op = "StartClients"
    /\ LET target == Head(handler.rest)
           err == StartClientErr(target.TestId)
           started == IF err = "nil" THEN Append(handler.started, target.TestId)
                      ELSE handler.started
           errors == IF err = "nil" THEN handler.errors
                     ELSE Append(handler.errors, [Item |-> target.TestId, Err |-> err])
       IN /\ StartClient(target.TestId, target.DestinationIp, target.DestinationPort)
          /\ stoppedAll' = FALSE
          /\ IF Tail(handler.rest) = <<>>
             THEN /\ handler' = NoRPC
                  /\ rpcRet' = [op |-> "StartClients", req |-> handler.req,
                                resp |-> StartResponse(started, errors)]
             ELSE /\ handler' = [handler EXCEPT !.rest = Tail(handler.rest),
                                        !.started = started, !.errors = errors]
                  /\ rpcRet' = HandlerStep
    /\ UNCHANGED <<configMaxProcesses, mgrRet, allocVars, maxProcesses, capRet,
                   collVars, orchVars, aggVars, auxVars, planVars>>

\* Collector.GetAllResults: the stored results in the order of a map
\* iteration.
GetAllResults(order) ==
    [i \in 1..Len(order) |-> [TestId |-> order[i], Status |-> results[order[i]]]]

\* Collector.GetResults: the stored results among testIDs, in their order.
GetResults(testIDs) ==
    LET present == SelectSeq(testIDs, LAMBDA t : MapHas(results, t)) IN
    [i \in 1..Len(present) |-> [TestId |-> present[i], Status |-> results[present[i]]]]

ClearAllKeepsCounters ==
    /\ results' = EmptyMap
    /\ UNCHANGED <<completed, failed>>

\* Collector.ClearAll
ClearAll ==
    /\ results' = EmptyMap
    /\ completed' = 0
    /\ failed' = 0

GetResultsRequests ==
    {[TestIds |-> ids, ClearAfterRetrieval |-> clear] :
         ids \in {<<>>, <<"t1">>, <<"t2", "t1">>}, clear \in BOOLEAN}

\* GetResults up to the response list; without clear_after_retrieval it
\* returns here.
DaemonGetResultsRead ==
    \E req \in GetResultsRequests, order \in KeyOrders(results) :
        LET list == IF Len(req.TestIds) = 0 THEN GetAllResults(order)
                    ELSE GetResults(req.TestIds)
            resp == [Results |-> list, TotalCount |-> Len(list)]
        IN /\ IF req.ClearAfterRetrieval
              THEN /\ handler.op = "none"
                   /\ handler' = [op |-> "GetResults", req |-> req, resp |-> resp]
                   /\ rpcRet' = HandlerStep
              ELSE /\ rpcRet' = [op |-> "GetResults", req |-> req, resp |-> resp]
                   /\ UNCHANGED handler
           /\ UNCHANGED <<configMaxProcesses, nonDaemonVars>>

\* The rest of GetResults with clear_after_retrieval: ClearAll, then return.
DaemonGetResultsClear ==
    /\ handler.op = "GetResults"
    /\ ClearAll
    /\ handler' = NoRPC
    /\ rpcRet' = [op |-> "GetResults", req |-> handler.req, resp |-> handler.resp]
    /\ UNCHANGED <<configMaxProcesses, allocVars, capVars, mgrVars, orchVars, aggVars, auxVars, planVars>>

\* The manager's background tasks beside the handlers.
DaemonMonitorWait ==
    \E i \in 1..Len(procs) :
        /\ MonitorWait(i)
        /\ rpcRet' = TaskRet
        /\ UNCHANGED <<configMaxProcesses, handler, stoppedAll, mgrRet, allocVars,
                       maxProcesses, capRet, collVars, orchVars, aggVars, auxVars, planVars>>

DaemonMonitorCleanup ==
    \E i \in 1..Len(procs) :
        /\ MonitorCleanup(i)
        /\ rpcRet' = TaskRet
        /\ UNCHANGED <<configMaxProcesses, handler, stoppedAll, mgrRet, allocVars,
                       maxProcesses, capRet, collVars, orchVars, aggVars, auxVars, planVars>>

DaemonClientRun ==
    \E i \in 1..Len(procs) :
        /\ ClientRun(i)
        /\ rpcRet' = TaskRet
        /\ UNCHANGED <<configMaxProcesses, handler, stoppedAll, mgrRet, allocVars,
                       maxProcesses, capRet, collVars, orchVars, aggVars, auxVars, planVars>>

DaemonClientStore ==
    \E i \in 1..Len(procs) :
        /\ ClientStore(i)
        /\ rpcRet' = TaskRet
        /\ UNCHANGED <<configMaxProcesses, handler, stoppedAll, mgrRet, allocVars,
                       maxProcesses, capRet, orchVars, aggVars, auxVars, planVars>>

DaemonClientCleanup ==
    \E i \in 1..Len(procs) :
        /\ ClientCleanup(i)
        /\ rpcRet' = TaskRet
        /\ UNCHANGED <<configMaxProcesses, handler, stoppedAll, mgrRet, allocVars,
                       maxProcesses, capRet, collVars, orchVars, aggVars, auxVars, planVars>>

\* A daemon that is asked about its capacity while servers are started and
\* exit.
NextDaemon ==
    \/ DaemonInitialize
    \/ DaemonPrepareTest
    \/ DaemonGetStatus
    \/ DaemonStartServersBegin
    \/ DaemonStartServersStep
    \/ DaemonMonitorWait
    \/ DaemonMonitorCleanup

\* A daemon that starts servers and clients and is asked for the results.
NextDaemonRun ==
    \/ DaemonStartServersBegin
    \/ DaemonStartServersStep
    \/ DaemonStartClientsBegin
    \/ DaemonStartClientsStep
    \/ DaemonGetResultsRead
    \/ DaemonGetResultsClear
    \/ DaemonMonitorWait
    \/ DaemonMonitorCleanup
    \/ DaemonClientRun
    \/ DaemonClientStore
    \/ DaemonClientCleanup

(***************************************************************************)
(* Orchestrator                                                            *)
(*                                                                         *)
(* ExecuteTest runs the phases in order.  A phase loop visits the pool's   *)
(* clients in the order of a Go map iteration, that is in any order; each  *)
(* RPC is a call step and a return step, and the daemon's answer is one of *)
(*   "ok"       a response with success / can_handle = true                *)
(*   "refused"  a response with success / can_handle = false               *)
(*   "error"    an RPC error                                               *)
(*   "partial"  a StartServers / StartClients response with success = true *)
(*              that lists errors for some of its items                    *)
(* runTest calls Aggregator.CollectResults when ExecuteTest has returned   *)
(* nil.                                                                    *)
(***************************************************************************)
StateInit == "init"

StateConnecting == "connecting"

StatePreparing == "preparing"

StateStartingServers == "starting_servers"

StateStartingClients == "starting_clients"

StateRunning == "running"

StateCollecting == "collecting"

StateComplete == "complete"

StateFailed == "failed"

\* The pool's clients: one per node of the registry.
GetAllClients == {nodeList[k] : k \in 1..Len(nodeList)}

\* runTest has not called Aggregator.CollectResults.
NoCollectResults ==
    [pc |-> "idle", pending |-> {}, calling |-> "", queried |-> {}, errored |-> {},
     ret |-> "none"]

\* NewNodeRegistry filled from the configuration, then NewOrchestrator.
InitOrch(registries) ==
    /\ nodeList \in registries
    /\ nodeTopologies = NoNodeTopologies
    /\ topology = NoTopology
    /\ state = StateInit
    /\ opc = "idle"
    /\ pending = {}
    /\ phaseErrors = 0
    /\ inflight = {}
    /\ sent = {}
    /\ returned = {}
    /\ ret = "none"
    /\ waitTime = 0
    /\ runTest = NoCollectResults
    /\ aggResults = {}

FireAndForget == TRUE

\* A call is synchronous: the caller goes on only when it has returned.
NoneInFlight == inflight = {}

\* ClientTarget list startClientsPhase builds for one node.
ClientTargets(topo, nodeID) ==
    LET testPairs == MapGet(topo.ClientTests, nodeID, <<>>)
        withPorts == SelectSeq(testPairs,
                         LAMBDA pair : Len(MapGet(topo.ServerPorts, pair.Destination, <<>>)) # 0)
    IN [k \in 1..Len(withPorts) |->
           [TestId |-> withPorts[k].TestID,
            DestinationIp |-> NodeIP(withPorts[k].Destination),
            DestinationPort |-> topo.ServerPorts[withPorts[k].Destination][1],
            Profile |-> withPorts[k].Profile]]

\* One loop iteration up to the call: client c is visited and either skipped
\* (continue) or sent the RPC with request req.
LoopCall(rpc, c, skip, req) ==
    /\ NoneInFlight
    /\ c \in pending
    /\ pending' = pending \ {c}
    /\ IF skip
       THEN UNCHANGED <<inflight, sent>>
       ELSE /\ inflight' = inflight \cup {[rpc |-> rpc, node |-> c]}
            /\ sent' = sent \cup {[rpc |-> rpc, node |-> c, req |-> req]}
    /\ UNCHANGED <<nodeList, topology, state, opc, phaseErrors, returned, ret>>

\* The number of RPCs of a run of ExecuteTest that are answered otherwise
\* than "ok"; a further such answer is not taken.
MaxFaults == 2

Faults == Cardinality({r \in returned : r.answer # "ok"})

\* The rest of the iteration: the call returns with the daemon's answer and
\* the phase appends to its error list when isError holds of the answer.
LoopReturn(rpc, c, answer, isError) ==
    /\ [rpc |-> rpc, node |-> c] \in inflight
    /\ answer # "ok" => Faults < MaxFaults
    /\ inflight' = inflight \ {[rpc |-> rpc, node |-> c]}
    /\ returned' = returned \cup {[rpc |-> rpc, node |-> c, answer |-> answer]}
    /\ phaseErrors' = IF isError THEN phaseErrors + 1 ELSE phaseErrors
    /\ UNCHANGED <<nodeList, topology, state, opc, pending, sent, ret>>

LoopDoneOnFirstError == NoneInFlight /\ (pending = {} \/ phaseErrors > 0)

\* The loop has visited every client.
LoopDone == pending = {} /\ NoneInFlight

PhaseFailsKeepsState ==
    /\ opc' = "returned"
    /\ ret' = "error"
    /\ UNCHANGED <<nodeList, topology, state, pending, phaseErrors, inflight, sent, returned>>

\* A phase returns an error: ExecuteTest returns it at once.
PhaseFails ==
    /\ state' = StateFailed
    /\ opc' = "returned"
    /\ ret' = "error"
    /\ UNCHANGED <<nodeList, topology, pending, phaseErrors, inflight, sent, returned>>

\* A phase returns nil and the next one begins with a fresh client list and
\* error list.
PhaseBegins(nextPc, nextState) ==
    /\ state' = nextState
    /\ opc' = nextPc
    /\ pending' = GetAllClients
    /\ phaseErrors' = 0
    /\ UNCHANGED <<nodeList, topology, inflight, sent, returned, ret>>

Answers == {"ok", "refused", "error"}

\* The answers to StartServers and StartClients.
StartAnswers == Answers \cup {"partial"}

\* err != nil, or !resp.Success: the errors a successful response lists are
\* not looked at.
StartIsError(answer) == answer \in {"refused", "error"}

\* ExecuteTest is entered with the planned topology; initializePhase begins.
ExecuteTestBegin ==
    /\ opc = "idle"
    /\ topology' = GenerateFullMesh(nodeList, ApplyOverrides(EmptyMap, overrideCfg))
    /\ state' = StateConnecting
    /\ opc' = "initialize"
    /\ pending' = GetAllClients
    /\ phaseErrors' = 0
    /\ UNCHANGED <<nodeList, inflight, sent, returned, ret>>

\* Pool.Initialize: an RPC error or Success = false is an error.
InitializeCall ==
    /\ opc = "initialize"
    /\ \E c \in pending : LoopCall("Initialize", c, FALSE, [MaxProcesses |-> 200])

InitializeReturn ==
    /\ opc = "initialize"
    /\ \E c \in GetAllClients, answer \in Answers :
           LoopReturn("Initialize", c, answer, answer # "ok")

\* initializePhase returns; on success preparePhase begins: it builds the
\* per-node topologies, fails at once if that fails, and else starts its
\* loop over the clients.
InitializeEnd ==
    /\ opc = "initialize"
    /\ LoopDone
    /\ IF phaseErrors > 0 THEN PhaseFails /\ UNCHANGED nodeTopologies
       ELSE \E serverOrder \in KeyOrders(topology.ServerPorts),
               clientOrder \in KeyOrders(topology.ClientTests) :
                /\ nodeTopologies' =
                       GenerateNodeTopologies(topology, serverOrder, clientOrder)
                /\ IF nodeTopologies'.err THEN PhaseFails
                   ELSE PhaseBegins("prepare", StatePreparing)

PrepareIsErrorRPCOnly(answer) == answer = "error"

\* preparePhase: an RPC error or can_handle = false is an error.
PrepareIsError(answer) == answer # "ok"

PrepareCall ==
    /\ opc = "prepare"
    /\ \E c \in pending :
           LoopCall("PrepareTest", c, ~MapHas(nodeTopologies.result, c),
                    MapGet(nodeTopologies.result, c, <<>>))

PrepareReturn ==
    /\ opc = "prepare"
    /\ \E c \in GetAllClients, answer \in Answers :
           LoopReturn("PrepareTest", c, answer, PrepareIsError(answer))

PrepareEnd ==
    /\ opc = "prepare"
    /\ LoopDone
    /\ IF phaseErrors > 0 THEN PhaseFails
       ELSE PhaseBegins("startServers", StateStartingServers)

\* startServersPhase: an RPC error or Success = false is an error.
StartServersCall ==
    /\ opc = "startServers"
    /\ \E c \in pending :
           LET ports == MapGet(topology.ServerPorts, c, <<>>) IN
           LoopCall("StartServers", c, Len(ports) = 0, [Ports |-> ports])

StartServersReturn ==
    /\ opc = "startServers"
    /\ \E c \in GetAllClients, answer \in StartAnswers :
           LoopReturn("StartServers", c, answer, StartIsError(answer))

StartServersEnd ==
    /\ opc = "startServers"
    /\ LoopDone
    /\ IF phaseErrors > 0 THEN PhaseFails
       ELSE PhaseBegins("startClients", StateStartingClients)

\* startClientsPhase: an RPC error or Success = false is an error.
StartClientsCall ==
    /\ opc = "startClients"
    /\ \E c \in pending :
           LET targets == ClientTargets(topology, c) IN
           LoopCall("StartClients", c, Len(targets) = 0, [Targets |-> targets])

StartClientsReturn ==
    /\ opc = "startClients"
    /\ \E c \in GetAllClients, answer \in StartAnswers :
           LoopReturn("StartClients", c, answer, StartIsError(answer))

\* On success waitPhase begins: it sets the state and sleeps.
StartClientsEnd ==
    /\ opc = "startClients"
    /\ LoopDone
    /\ IF phaseErrors > 0 THEN PhaseFails
       ELSE PhaseBegins("wait", StateRunning)

\* The loop of waitPhase over pairs[k..]: the longest duration seen.
RECURSIVE MaxDurationLoop(_, _, _)
MaxDurationLoop(pairs, k, maxDuration) ==
    IF k > Len(pairs) THEN maxDuration
    ELSE LET duration == TestProfiles[pairs[k].Profile].Duration IN
         MaxDurationLoop(pairs, k + 1,
                         IF duration > maxDuration THEN duration ELSE maxDuration)

\* maxDuration := 10 before the loop; ten seconds are added after it.
WaitSeconds(topo) == MaxDurationLoop(topo.Pairs, 1, 10) + 10

\* waitPhase's sleep ends; it never fails, and collectPhase begins.
WaitPhase ==
    /\ opc = "wait"
    /\ waitTime' = WaitSeconds(topology)
    /\ PhaseBegins("collect", StateCollecting)

\* collectPhase: a failed GetResults is logged and skipped.
CollectCall ==
    /\ opc = "collect"
    /\ \E c \in pending :
           LoopCall("GetResults", c, FALSE, [ClearAfterRetrieval |-> FALSE])

CollectReturn ==
    /\ opc = "collect"
    /\ \E c \in GetAllClients, answer \in {"ok", "error"} :
           LoopReturn("GetResults", c, answer, FALSE)

\* collectPhase returns nil; cleanupPhase begins and leaves the state as is.
CollectEnd ==
    /\ opc = "collect"
    /\ LoopDone
    /\ PhaseBegins("cleanup", state)

\* cleanupPhase: Pool.StopAll with force = true on every client.
CleanupCall ==
    /\ opc = "cleanup"
    /\ \E c \in pending : LoopCall("StopAll", c, FALSE, [Force |-> TRUE])

CleanupReturn ==
    /\ opc = "cleanup"
    /\ \E c \in GetAllClients, answer \in {"ok", "error"} :
           LoopReturn("StopAll", c, answer, answer # "ok")

\* A cleanup error is only logged: ExecuteTest completes and returns nil.
CleanupEnd ==
    /\ opc = "cleanup"
    /\ LoopDone
    /\ state' = StateComplete
    /\ opc' = "returned"
    /\ ret' = "nil"
    /\ UNCHANGED <<nodeList, topology, pending, phaseErrors, inflight, sent, returned>>

\* runTest: ExecuteTest has returned nil and Aggregator.CollectResults
\* begins its loop over the pool's clients.
CollectResultsBegin ==
    /\ opc = "returned"
    /\ ret = "nil"
    /\ runTest.pc = "idle"
    /\ runTest' = [NoCollectResults EXCEPT !.pc = "collect", !.pending = GetAllClients]
    /\ UNCHANGED aggResults

\* One loop iteration up to the call of GetResults.
CollectResultsCall ==
    /\ runTest.pc = "collect"
    /\ runTest.calling = ""
    /\ \E c \in runTest.pending :
           runTest' = [runTest EXCEPT !.pending = @ \ {c}, !.calling = c,
                                      !.queried = @ \cup {c}]
    /\ UNCHANGED aggResults

\* The rest of the iteration: an RPC error makes CollectResults return it at
\* once; otherwise the node's results are added to the aggregator.
CollectResultsReturn ==
    /\ runTest.pc = "collect"
    /\ runTest.calling # ""
    /\ \E answer \in {"ok", "error"} :
           IF answer = "error"
           THEN /\ runTest' = [runTest EXCEPT !.pc = "done", !.calling = "",
                                              !.errored = @ \cup {runTest.calling},
                                              !.ret = "error"]
                /\ UNCHANGED aggResults
           ELSE /\ runTest' = [runTest EXCEPT !.calling = ""]
                /\ aggResults' = aggResults \cup {runTest.calling}

\* The loop has visited every client: CollectResults returns nil.
CollectResultsEnd ==
    /\ runTest.pc = "collect"
    /\ runTest.calling = ""
    /\ runTest.pending = {}
    /\ runTest' = [runTest EXCEPT !.pc = "done", !.ret = "nil"]
    /\ UNCHANGED aggResults

nonOrchVars == <<allocVars, capVars, mgrVars, collVars, planVars, daemonVars, aggVars, auxVars>>

nonAggVars == <<allocVars, capVars, mgrVars, collVars, planVars, daemonVars, orchVars, auxVars>>

NextOrch ==
    \/ ExecuteTestBegin /\ UNCHANGED <<nonOrchVars, nodeTopologies, waitTime>>
    \/ InitializeCall /\ UNCHANGED <<nonOrchVars, nodeTopologies, waitTime>>
    \/ InitializeReturn /\ UNCHANGED <<nonOrchVars, nodeTopologies, waitTime>>
    \/ InitializeEnd /\ UNCHANGED <<nonOrchVars, waitTime>>
    \/ PrepareCall /\ UNCHANGED <<nonOrchVars, nodeTopologies, waitTime>>
    \/ PrepareReturn /\ UNCHANGED <<nonOrchVars, nodeTopologies, waitTime>>
    \/ PrepareEnd /\ UNCHANGED <<nonOrchVars, nodeTopologies, waitTime>>
    \/ StartServersCall /\ UNCHANGED <<nonOrchVars, nodeTopologies, waitTime>>
    \/ StartServersReturn /\ UNCHANGED <<nonOrchVars, nodeTopologies, waitTime>>
    \/ StartServersEnd /\ UNCHANGED <<nonOrchVars, nodeTopologies, waitTime>>
    \/ StartClientsCall /\ UNCHANGED <<nonOrchVars, nodeTopologies, waitTime>>
    \/ StartClientsReturn /\ UNCHANGED <<nonOrchVars, nodeTopologies, waitTime>>
    \/ StartClientsEnd /\ UNCHANGED <<nonOrchVars, nodeTopologies, waitTime>>
    \/ WaitPhase /\ UNCHANGED <<nonOrchVars, nodeTopologies>>
    \/ CollectCall /\ UNCHANGED <<nonOrchVars, nodeTopologies, waitTime>>
    \/ CollectReturn /\ UNCHANGED <<nonOrchVars, nodeTopologies, waitTime>>
    \/ CollectEnd /\ UNCHANGED <<nonOrchVars, nodeTopologies, waitTime>>
    \/ CleanupCall /\ UNCHANGED <<nonOrchVars, nodeTopologies, waitTime>>
    \/ CleanupReturn /\ UNCHANGED <<nonOrchVars, nodeTopologies, waitTime>>
    \/ CleanupEnd /\ UNCHANGED <<nonOrchVars, nodeTopologies, waitTime>>
    \/ CollectResultsBegin /\ UNCHANGED nonAggVars
    \/ CollectResultsCall /\ UNCHANGED nonAggVars
    \/ CollectResultsReturn /\ UNCHANGED nonAggVars
    \/ CollectResultsEnd /\ UNCHANGED nonAggVars

(***************************************************************************)
(* The collector on its own: every operation that changes it.              *)
(***************************************************************************)
\* Bound: the results stored in one run.
MaxStored == 4

CollectorTestIDs == {"", "t1", "t2"}

CollectorStatuses == {"completed", "failed", "running"}

\* ClearResult on the collector value c: a missing id is an error; a present
\* one is deleted and its status counted down.
ClearResult(c, testID) ==
    IF ~MapHas(c.results, testID)
    THEN [c EXCEPT !.err = TRUE]
    ELSE LET status == c.results[testID] IN
         [results |-> MapDelete(c.results, testID),
          completed |-> IF status = "completed" THEN c.completed - 1 ELSE c.completed,
          failed |-> IF status = "failed" THEN c.failed - 1 ELSE c.failed,
          err |-> FALSE]

\* ClearResults: the same for each id of the list that is present.
RECURSIVE ClearResults(_, _)
ClearResults(c, testIDs) ==
    IF testIDs = <<>> THEN [c EXCEPT !.err = FALSE]
    ELSE ClearResults(ClearResult(c, Head(testIDs)), Tail(testIDs))

SetCollector(c) ==
    /\ results' = c.results
    /\ completed' = c.completed
    /\ failed' = c.failed

DoStoreResult ==
    \E testID \in CollectorTestIDs, status \in CollectorStatuses :
        /\ completed + failed < MaxStored
        /\ SetCollector(StoreResult(Collector, testID, status))

DoStoreIperfResult ==
    \E testID \in CollectorTestIDs, success \in BOOLEAN :
        /\ completed + failed < MaxStored
        /\ SetCollector(StoreIperfResult(Collector, testID, success))

DoClearResult ==
    \E testID \in CollectorTestIDs : SetCollector(ClearResult(Collector, testID))

DoClearResults ==
    \E testIDs \in {<<>>, <<"t1">>, <<"t2", "t1">>, <<"t1", "t1">>} :
        SetCollector(ClearResults(Collector, testIDs))

nonCollVars == <<allocVars, capVars, mgrVars, orchVars, aggVars, auxVars, planVars, daemonVars>>

NextColl ==
    \/ DoStoreResult /\ UNCHANGED nonCollVars
    \/ DoStoreIperfResult /\ UNCHANGED nonCollVars
    \/ DoClearResult /\ UNCHANGED nonCollVars
    \/ DoClearResults /\ UNCHANGED nonCollVars
    \/ ClearAll /\ UNCHANGED nonCollVars

(***************************************************************************)
(* The aggregator's summary (aggregator.Aggregator).  A throughput is a    *)
(* whole number of bits per second; the quotient GetSummary computes in    *)
(* float64 is kept exact, as numerator and denominator.                    *)
(***************************************************************************)
\* Bound: the test ids whose results are collected.
MaxResults == 3

SummaryTestIDs == {"test-" \o ToString(i) : i \in 1..MaxResults}

ResultStatuses == {"TEST_STATUS_COMPLETED", "TEST_STATUS_FAILED", "TEST_STATUS_RUNNING"}

\* extractThroughput: 0 when the iperf JSON is absent or has no
\* end.sum_sent.bits_per_second.
Throughputs == {0, 100, 300}

NoSummary == [TotalTests |-> -1]

InitSummary ==
    /\ aggregated = EmptyMap
    /\ summary = NoSummary

\* addResult: a.results[result.TestID] = result
addResult(result) ==
    /\ aggregated' = MapPut(aggregated, result.TestID, result)
    /\ summary' = NoSummary

AggregatorAddResult ==
    \E id \in SummaryTestIDs, status \in ResultStatuses, bps \in Throughputs :
        addResult([TestID |-> id, Status |-> status,
                   ThroughputBps |-> IF status = "TEST_STATUS_COMPLETED" THEN bps ELSE 0])

\* The body of GetSummary's loop for one result.
SummaryVisit(acc, result) ==
    IF result.Status = "TEST_STATUS_COMPLETED"
    THEN IF result.ThroughputBps > 0
         THEN [acc EXCEPT
                 !.CompletedTests = @ + 1,
                 !.totalThroughput = @ + result.ThroughputBps,
                 !.MinThroughput = IF @ < 0 \/ result.ThroughputBps < @
                                   THEN result.ThroughputBps ELSE @,
                 !.MaxThroughput = IF result.ThroughputBps > @
                                   THEN result.ThroughputBps ELSE @]
         ELSE [acc EXCEPT !.CompletedTests = @ + 1]
    ELSE IF result.Status = "TEST_STATUS_FAILED"
         THEN [acc EXCEPT !.FailedTests = @ + 1]
         ELSE acc

RECURSIVE SummaryLoop(_, _, _)
SummaryLoop(m, order, acc) ==
    IF order = <<>> THEN acc
    ELSE SummaryLoop(m, Tail(order), SummaryVisit(acc, m[Head(order)]))

\* totalThroughput / float64(summary.CompletedTests), when CompletedTests > 0
AvgThroughput(acc, m) ==
    IF acc.CompletedTests > 0
    THEN [num |-> acc.totalThroughput, den |-> acc.CompletedTests]
    ELSE [num |-> 0, den |-> 1]

GetSummary(m) ==
    LET order == CHOOSE o \in KeyOrders(m) : TRUE
        acc == SummaryLoop(m, order,
                   [CompletedTests |-> 0, FailedTests |-> 0, totalThroughput |-> 0,
                    MinThroughput |-> -1, MaxThroughput |-> 0])
    IN [TotalTests |-> Cardinality(DOMAIN m),
        CompletedTests |-> acc.CompletedTests,
        FailedTests |-> acc.FailedTests,
        AvgThroughput |-> AvgThroughput(acc, m),
        MinThroughput |-> IF acc.MinThroughput < 0 THEN 0 ELSE acc.MinThroughput,
        MaxThroughput |-> acc.MaxThroughput]

AggregatorGetSummary ==
    /\ summary' = GetSummary(aggregated)
    /\ UNCHANGED aggregated

nonSumVars == <<allocVars, capVars, mgrVars, collVars, orchVars, aggVars, planVars, daemonVars, lockVars, progVars>>

NextSummary ==
    \/ AggregatorAddResult /\ UNCHANGED nonSumVars
    \/ AggregatorGetSummary /\ UNCHANGED nonSumVars

(***************************************************************************)
(* The manager's lock and the calls made while it is held.  A goroutine's  *)
(* pc names the call it is in: the step that leaves the pc is the call's   *)
(* return.  Every request runs on a goroutine of its own; StartServer and  *)
(* StartClient start one more, the monitor or the worker.                  *)
(***************************************************************************)
\* Bound: the requests the daemon serves at a time.
MaxRequests == 2

Unlocked == [slot |-> 0, who |-> ""]

IdleGoroutine == [op |-> "none", pc |-> "idle", worker |-> "none"]

InitLocks ==
    /\ mu = Unlocked
    /\ goroutines = [i \in 1..MaxRequests |-> IdleGoroutine]

RequestOps == {"StartServer", "StartClient", "StopProcess", "PrepareTest"}

\* The first call of each operation: m.mu.Lock(), or GetAvailableSlots in
\* PrepareTest, which takes no lock.
FirstCall(op) == IF op = "PrepareTest" THEN "GetAvailableSlots" ELSE "Lock"

RequestBegin(i) ==
    /\ goroutines[i] = IdleGoroutine
    /\ \E op \in RequestOps :
           goroutines' = [goroutines EXCEPT ![i] = [op |-> op, pc |-> FirstCall(op),
                                                    worker |-> "none"]]
    /\ UNCHANGED mu

\* m.mu.Lock() returns when the lock is free; the deferred m.mu.Unlock()
\* ends the operation.
HandlerLock(i, next) ==
    /\ goroutines[i].pc = "Lock"
    /\ mu = Unlocked
    /\ mu' = [slot |-> i, who |-> "handler"]
    /\ goroutines' = [goroutines EXCEPT ![i].pc = next]

HandlerUnlock(i) ==
    /\ goroutines[i].pc = "Unlock"
    /\ mu' = Unlocked
    /\ goroutines' = [goroutines EXCEPT ![i].pc = "returned"]

HandlerCall(i, from, to) ==
    /\ goroutines[i].pc = from
    /\ \E next \in to : goroutines' = [goroutines EXCEPT ![i].pc = next]
    /\ UNCHANGED mu

\* go m.monitorProcess(processInfo) / go m.runClient(ctx, processInfo, config)
HandlerGo(i, first) ==
    /\ goroutines[i].pc = "go"
    /\ goroutines' = [goroutines EXCEPT ![i].pc = "Unlock", ![i].worker = first]
    /\ UNCHANGED mu

StartServerStep(i) ==
    /\ goroutines[i].op = "StartServer"
    /\ \/ HandlerLock(i, "servers[port]")
       \/ HandlerCall(i, "servers[port]", {"Unlock", "ReserveSlots"})
       \/ HandlerCall(i, "ReserveSlots", {"Unlock", "RunServer"})
       \/ HandlerCall(i, "RunServer", {"ReleaseSlots", "go"})
       \/ HandlerCall(i, "ReleaseSlots", {"Unlock"})
       \/ HandlerGo(i, "Wait")
       \/ HandlerUnlock(i)

StartClientStep(i) ==
    /\ goroutines[i].op = "StartClient"
    /\ \/ HandlerLock(i, "processes[testID]")
       \/ HandlerCall(i, "processes[testID]", {"Unlock", "ReserveSlots"})
       \/ HandlerCall(i, "ReserveSlots", {"Unlock", "go"})
       \/ HandlerGo(i, "Run")
       \/ HandlerUnlock(i)

StopProcessStep(i) ==
    /\ goroutines[i].op = "StopProcess"
    /\ \/ HandlerLock(i, "processes[testID]")
       \/ HandlerCall(i, "processes[testID]", {"Unlock", "Cancel"})
       \/ HandlerCall(i, "Cancel", {"ReleaseSlots"})
       \/ HandlerCall(i, "ReleaseSlots", {"Unlock"})
       \/ HandlerUnlock(i)

PrepareTestStep(i) ==
    /\ goroutines[i].op = "PrepareTest"
    /\ \/ HandlerCall(i, "GetAvailableSlots", {"DetectCapacity"})
       \/ HandlerCall(i, "DetectCapacity", {"returned"})

WorkerCall(i, from, to) ==
    /\ goroutines[i].worker = from
    /\ goroutines' = [goroutines EXCEPT ![i].worker = to]
    /\ UNCHANGED mu

WorkerLock(i) ==
    /\ goroutines[i].worker = "Lock"
    /\ mu = Unlocked
    /\ mu' = [slot |-> i, who |-> "worker"]
    /\ goroutines' = [goroutines EXCEPT ![i].worker = "delete"]

WorkerUnlock(i) ==
    /\ goroutines[i].worker = "Unlock"
    /\ mu' = Unlocked
    /\ goroutines' = [goroutines EXCEPT ![i].worker = "done"]

\* monitorProcess: Cmd.Wait, then the cleanup under the lock.
monitorProcessStep(i) ==
    /\ goroutines[i].op = "StartServer"
    /\ \/ WorkerCall(i, "Wait", "Lock")
       \/ WorkerLock(i)
       \/ WorkerCall(i, "delete", "ReleaseSlots")
       \/ WorkerCall(i, "ReleaseSlots", "Unlock")
       \/ WorkerUnlock(i)

\* runClient: Wrapper.Run, the result to the collector, then the cleanup
\* under the lock.
runClientStep(i) ==
    /\ goroutines[i].op = "StartClient"
    /\ \/ WorkerCall(i, "Run", "StoreIperfResult")
       \/ WorkerCall(i, "StoreIperfResult", "Lock")
       \/ WorkerLock(i)
       \/ WorkerCall(i, "delete", "ReleaseSlots")
       \/ WorkerCall(i, "ReleaseSlots", "Unlock")
       \/ WorkerUnlock(i)

\* The request has returned and the goroutine it started has ended.
RequestEnd(i) ==
    /\ goroutines[i].pc = "returned"
    /\ goroutines[i].worker \in {"none", "done"}
    /\ goroutines' = [goroutines EXCEPT ![i] = IdleGoroutine]
    /\ UNCHANGED mu

nonLockVars == <<allocVars, capVars, mgrVars, collVars, orchVars, aggVars, planVars, daemonVars, sumVars, progVars>>

NextLocks ==
    \/ \E i \in 1..MaxRequests : RequestBegin(i) /\ UNCHANGED nonLockVars
    \/ \E i \in 1..MaxRequests : StartServerStep(i) /\ UNCHANGED nonLockVars
    \/ \E i \in 1..MaxRequests : StartClientStep(i) /\ UNCHANGED nonLockVars
    \/ \E i \in 1..MaxRequests : StopProcessStep(i) /\ UNCHANGED nonLockVars
    \/ \E i \in 1..MaxRequests : PrepareTestStep(i) /\ UNCHANGED nonLockVars
    \/ \E i \in 1..MaxRequests : monitorProcessStep(i) /\ UNCHANGED nonLockVars
    \/ \E i \in 1..MaxRequests : runClientStep(i) /\ UNCHANGED nonLockVars
    \/ \E i \in 1..MaxRequests : RequestEnd(i) /\ UNCHANGED nonLockVars

(***************************************************************************)
(* The progress tracker (orchestrator.Progress) and its sync.RWMutex.      *)
(*                                                                         *)
(* Lock announces the writer, after which RLock parks new readers, and     *)
(* waits until the read locks held have been released; Unlock admits the   *)
(* parked readers and lets the next writer announce itself.                *)
(***************************************************************************)
\* Bound: the goroutines that use one tracker.
MaxCallers == 2

NoWriter == [who |-> 0, state |-> "none"]

IdleCaller == [op |-> "none", pc |-> "idle", parked |-> FALSE]

InitProgress ==
    /\ pmu = [readers |-> 0, writer |-> NoWriter]
    /\ callers = [t \in 1..MaxCallers |-> IdleCaller]

\* GetSummary, GetPercentComplete, GetPhasePercent and Print read; SetTotals,
\* SetPhase, Increment* and AddError write, all the same way.
ReaderOps == {"GetSummary", "GetPercentComplete", "GetPhasePercent", "Print"}

WriterOps == {"SetTotals", "SetPhase", "Increment", "AddError"}

CallBegin(t) ==
    /\ callers[t] = IdleCaller
    /\ \E op \in ReaderOps \cup WriterOps :
           callers' = [callers EXCEPT ![t] =
                          [op |-> op, pc |-> IF op \in ReaderOps THEN "RLock" ELSE "Lock",
                           parked |-> FALSE]]
    /\ UNCHANGED pmu

\* p.mu.RLock() at pc `from`: the read lock is taken unless a writer has
\* announced itself, in which case the caller parks until that writer's
\* Unlock.
RLock(t, from, to) ==
    /\ callers[t].pc = from /\ ~callers[t].parked
    /\ IF pmu.writer = NoWriter
       THEN /\ pmu' = [pmu EXCEPT !.readers = @ + 1]
            /\ callers' = [callers EXCEPT ![t].pc = to]
       ELSE /\ callers' = [callers EXCEPT ![t].parked = TRUE]
            /\ UNCHANGED pmu

RUnlock(t, from, to) ==
    /\ callers[t].pc = from
    /\ pmu' = [pmu EXCEPT !.readers = @ - 1]
    /\ callers' = [callers EXCEPT ![t] = IF to = "idle" THEN IdleCaller
                                         ELSE [@ EXCEPT !.pc = to]]

\* The pc after the RLock a parked caller is in.
AfterRLock(c) ==
    IF c.pc = "RLock" THEN IF c.op = "Print" THEN "GetPercentComplete.RLock" ELSE "RUnlock"
    ELSE IF c.pc = "GetPercentComplete.RLock" THEN "GetPercentComplete.RUnlock"
    ELSE "GetPhasePercent.RUnlock"

\* GetSummary, GetPercentComplete, GetPhasePercent called from outside.
ReaderStep(t) ==
    /\ callers[t].op \in ReaderOps \ {"Print"}
    /\ \/ RLock(t, "RLock", "RUnlock")
       \/ RUnlock(t, "RUnlock", "idle")

\* Print: RLock, then GetPercentComplete and GetPhasePercent, each of which
\* takes and releases the read lock again, then the deferred RUnlock.
PrintStep(t) ==
    /\ callers[t].op = "Print"
    /\ \/ RLock(t, "RLock", "GetPercentComplete.RLock")
       \/ RLock(t, "GetPercentComplete.RLock", "GetPercentComplete.RUnlock")
       \/ RUnlock(t, "GetPercentComplete.RUnlock", "GetPhasePercent.RLock")
       \/ RLock(t, "GetPhasePercent.RLock", "GetPhasePercent.RUnlock")
       \/ RUnlock(t, "GetPhasePercent.RUnlock", "RUnlock")
       \/ RUnlock(t, "RUnlock", "idle")

\* A writer method: Lock announces the writer when no other has, then
\* waits for the read locks to be released; the deferred Unlock admits the
\* parked readers.
WriterStep(t) ==
    /\ callers[t].op \in WriterOps
    /\ \/ /\ callers[t].pc = "Lock"
          /\ pmu.writer = NoWriter
          /\ pmu' = [pmu EXCEPT !.writer = [who |-> t, state |-> "announced"]]
          /\ callers' = [callers EXCEPT ![t].pc = "Lock.wait"]
       \/ /\ callers[t].pc = "Lock.wait"
          /\ pmu.readers = 0
          /\ pmu' = [pmu EXCEPT !.writer.state = "held"]
          /\ callers' = [callers EXCEPT ![t].pc = "Unlock"]
       \/ /\ callers[t].pc = "Unlock"
          /\ LET parked == {u \in 1..MaxCallers : callers[u].parked} IN
             /\ pmu' = [readers |-> Cardinality(parked), writer |-> NoWriter]
             /\ callers' = [u \in 1..MaxCallers |->
                               IF u = t THEN IdleCaller
                               ELSE IF u \in parked
                               THEN [callers[u] EXCEPT !.pc = AfterRLock(callers[u]),
                                                       !.parked = FALSE]
                               ELSE callers[u]]

nonProgVars == <<allocVars, capVars, mgrVars, collVars, orchVars, aggVars, planVars, daemonVars, sumVars, lockVars>>

NextProgress ==
    \/ \E t \in 1..MaxCallers : CallBegin(t) /\ UNCHANGED nonProgVars
    \/ \E t \in 1..MaxCallers : ReaderStep(t) /\ UNCHANGED nonProgVars
    \/ \E t \in 1..MaxCallers : PrintStep(t) /\ UNCHANGED nonProgVars
    \/ \E t \in 1..MaxCallers : WriterStep(t) /\ UNCHANGED nonProgVars

\* The steps of one goroutine.
CallerStep(t) ==
    /\ CallBegin(t) \/ ReaderStep(t) \/ PrintStep(t) \/ WriterStep(t)
    /\ UNCHANGED nonProgVars

InitAux == InitSummary /\ InitLocks /\ InitProgress

(***************************************************************************)
(* Specifications                                                          *)
(***************************************************************************)
InitSpecAlloc ==
    InitAlloc /\ InitCap({MaxCapacity}) /\ InitMgr /\ InitColl /\ InitOrch(NodeLists({2})) /\ InitPlan({<<>>}) /\ InitDaemon /\ InitAux

SpecAlloc == InitSpecAlloc /\ [][NextAlloc]_vars

InitSpecCap ==
    InitAlloc /\ InitCap(1..MaxCapacity) /\ InitMgr /\ InitColl /\ InitOrch(NodeLists({2})) /\ InitPlan({<<>>}) /\ InitDaemon /\ InitAux

SpecCap == InitSpecCap /\ [][NextCap]_vars

InitSpecMgr ==
    InitAlloc /\ InitCap({MgrCapacity}) /\ InitMgr /\ InitColl /\ InitOrch(NodeLists({2})) /\ InitPlan({<<>>}) /\ InitDaemon /\ InitAux

SpecMgr == InitSpecMgr /\ [][NextMgr]_vars

InitSpecOrch ==
    InitAlloc /\ InitCap({MaxCapacity}) /\ InitMgr /\ InitColl /\ InitOrch(NodeLists(2..MaxNodes)) /\ InitPlan({<<>>}) /\ InitDaemon /\ InitAux

SpecOrch == InitSpecOrch /\ [][NextOrch]_vars

\* The controller's own steps are taken when they can be: the steps with no
\* RPC outstanding.  When an RPC returns is up to the daemon and the
\* network: the calls are made on context.Background() and no deadline is
\* set on them, so nothing forces a return.
OrchestratorStep == NextOrch /\ inflight = {} /\ runTest.calling = ""

InitSpecOrchLive ==
    InitAlloc /\ InitCap({MaxCapacity}) /\ InitMgr /\ InitColl /\ InitOrch(NodeLists(2..MaxNodes)) /\ InitPlan({<<>>}) /\ InitDaemon /\ InitAux

SpecOrchLive == InitSpecOrchLive /\ [][NextOrch]_vars /\ WF_vars(OrchestratorStep)

\* Registries of up to MaxNodes nodes, added in id order or in the reverse
\* order, and every configuration of overrides.
InitSpecPlan ==
    /\ InitAlloc /\ InitCap({MaxCapacity}) /\ InitMgr /\ InitColl
    /\ InitOrch(NodeLists(0..MaxNodes) \cup {Reversed(l) : l \in NodeLists(0..MaxNodes)})
    /\ InitPlan(OverrideConfigs) /\ InitDaemon /\ InitAux

SpecPlan == InitSpecPlan /\ [][NextPlan]_vars

InitSpecDaemon ==
    InitAlloc /\ InitCap({MgrCapacity}) /\ InitMgr /\ InitColl /\ InitOrch(NodeLists({2})) /\ InitPlan({<<>>}) /\ InitDaemon /\ InitAux

SpecDaemon == InitSpecDaemon /\ [][NextDaemon]_vars

InitSpecDaemonRun ==
    InitAlloc /\ InitCap({MgrCapacity}) /\ InitMgr /\ InitColl /\ InitOrch(NodeLists({2})) /\ InitPlan({<<>>}) /\ InitDaemon /\ InitAux

SpecDaemonRun == InitSpecDaemonRun /\ [][NextDaemonRun]_vars

InitSpecMgrKeys ==
    InitAlloc /\ InitCap({MgrCapacity}) /\ InitMgr /\ InitColl /\ InitOrch(NodeLists({2})) /\ InitPlan({<<>>}) /\ InitDaemon /\ InitAux

SpecMgrKeys == InitSpecMgrKeys /\ [][NextMgrKeys]_vars

InitSpecColl ==
    InitAlloc /\ InitCap({MgrCapacity}) /\ InitMgr /\ InitColl /\ InitOrch(NodeLists({2})) /\ InitPlan({<<>>}) /\ InitDaemon /\ InitAux

SpecColl == InitSpecColl /\ [][NextColl]_vars

InitSpecLocks ==
    InitAlloc /\ InitCap({MgrCapacity}) /\ InitMgr /\ InitColl /\ InitOrch(NodeLists({2})) /\ InitPlan({<<>>}) /\ InitDaemon /\ InitAux

SpecLocks == InitSpecLocks /\ [][NextLocks]_vars

InitSpecProgress ==
    InitAlloc /\ InitCap({MgrCapacity}) /\ InitMgr /\ InitColl /\ InitOrch(NodeLists({2})) /\ InitPlan({<<>>}) /\ InitDaemon /\ InitAux

SpecProgress == InitSpecProgress /\ [][NextProgress]_vars

\* The scheduler runs every goroutine that can take a step.
InitSpecProgressLive ==
    InitAlloc /\ InitCap({MgrCapacity}) /\ InitMgr /\ InitColl /\ InitOrch(NodeLists({2})) /\ InitPlan({<<>>}) /\ InitDaemon /\ InitAux

SpecProgressLive ==
    /\ InitSpecProgressLive
    /\ [][NextProgress]_vars
    /\ \A t \in 1..MaxCallers : WF_vars(CallerStep(t))

InitSpecSummary ==
    InitAlloc /\ InitCap({MgrCapacity}) /\ InitMgr /\ InitColl /\ InitOrch(NodeLists({2})) /\ InitPlan({<<>>}) /\ InitDaemon /\ InitAux

SpecSummary == InitSpecSummary /\ [][NextSummary]_vars

(***************************************************************************)
(* Properties of the orchestrator (SpecOrch)                               *)
(***************************************************************************)
\* C1: when ExecuteTest has returned an error (a fatal phase failed), the
\* state is failed and StopAll has been sent to every connected daemon.
C1_CleanupAfterFailure ==
    ret = "error" =>
        /\ state = StateFailed
        /\ \A c \in GetAllClients :
               \E r \in sent : r.rpc = "StopAll" /\ r.node = c

\* C2: the destination port of every target sent in a StartClients request
\* to source s is the entry of the destination's StartServers list at s's
\* position in the destination's source list, and two different sources
\* never target the same port of the same destination.
C2_ClientPortIsReservedPort ==
    /\ \A r \in sent :
           r.rpc = "StartClients" =>
               \A k \in 1..Len(r.req.Targets), d \in GetAllClients :
                   NodeIP(d) = r.req.Targets[k].DestinationIp =>
                       \E q \in sent :
                           /\ q.rpc = "StartServers"
                           /\ q.node = d
                           /\ r.req.Targets[k].DestinationPort =
                                  q.req.Ports[PortIndex(SourceNodes(topology, d), r.node) + 1]
    /\ \A r1 \in sent, r2 \in sent :
           (r1.rpc = "StartClients" /\ r2.rpc = "StartClients" /\ r1.node # r2.node) =>
               \A k1 \in 1..Len(r1.req.Targets), k2 \in 1..Len(r2.req.Targets) :
                   ~ /\ r1.req.Targets[k1].DestinationIp = r2.req.Targets[k2].DestinationIp
                     /\ r1.req.Targets[k1].DestinationPort = r2.req.Targets[k2].DestinationPort

\* C7: every RPC of an earlier phase has returned once an RPC of a later
\* phase has been issued, and a StartClients request is issued only when
\* StartServers has returned on the node of each of its targets.
C7_PhaseBarrier ==
    LET phaseOf == [Initialize |-> 1, PrepareTest |-> 2, StartServers |-> 3,
                    StartClients |-> 4, GetResults |-> 5, StopAll |-> 6]
    IN /\ \A r \in sent, q \in sent :
              phaseOf[q.rpc] < phaseOf[r.rpc] =>
                  \E a \in returned : a.rpc = q.rpc /\ a.node = q.node
       /\ \A r \in sent :
              r.rpc = "StartClients" =>
                  \A k \in 1..Len(r.req.Targets), d \in GetAllClients :
                      NodeIP(d) = r.req.Targets[k].DestinationIp =>
                          \E a \in returned : a.rpc = "StartServers" /\ a.node = d

\* A StartClients request is in flight in a mesh of three nodes.
C7_Witness ==
    /\ Len(nodeList) = 3
    /\ \E r \in inflight : r.rpc = "StartClients"

\* C8: the state moves only along init -> connecting -> preparing ->
\* starting_servers -> starting_clients -> running -> collecting -> complete,
\* or to failed from connecting, preparing, starting_servers or
\* starting_clients; ExecuteTest has returned nil exactly when the state is
\* complete and an error exactly when it is failed; and a run whose cleanup
\* met an error still ends complete.
C8_StateMachine ==
    /\ [](/\ ret = "nil" <=> state = StateComplete
          /\ ret = "error" <=> state = StateFailed
          /\ (opc = "returned" /\ \E a \in returned : a.rpc = "StopAll" /\ a.answer = "error")
                 => (state = StateComplete /\ ret = "nil"))
    /\ [][state' # state =>
              <<state, state'>> \in
                  {<<StateInit, StateConnecting>>,
                   <<StateConnecting, StatePreparing>>,
                   <<StatePreparing, StateStartingServers>>,
                   <<StateStartingServers, StateStartingClients>>,
                   <<StateStartingClients, StateRunning>>,
                   <<StateRunning, StateCollecting>>,
                   <<StateCollecting, StateComplete>>,
                   <<StateConnecting, StateFailed>>,
                   <<StatePreparing, StateFailed>>,
                   <<StateStartingServers, StateFailed>>,
                   <<StateStartingClients, StateFailed>>}]_vars

\* ExecuteTest has returned after a cleanup in which a StopAll failed.
C8_Witness ==
    /\ opc = "returned"
    /\ state = StateComplete
    /\ \E a \in returned : a.rpc = "StopAll" /\ a.answer = "error"

\* C9: once a daemon has answered PrepareTest with can_handle = false or
\* with an RPC error, no StartServers and no StartClients is ever issued,
\* and when the prepare phase is over the state is failed, ExecuteTest has
\* returned an error and every node has been sent PrepareTest.
C9_PrepareFailureStops ==
    (\E a \in returned : a.rpc = "PrepareTest" /\ a.answer # "ok") =>
        /\ \A r \in sent : r.rpc \notin {"StartServers", "StartClients"}
        /\ opc # "prepare" =>
               /\ state = StateFailed
               /\ ret = "error"
               /\ \A c \in GetAllClients :
                      \E r \in sent : r.rpc = "PrepareTest" /\ r.node = c

\* The first of three daemons asked has refused (can_handle = false), the
\* others accepted, and the phase is over.
C9_Witness ==
    /\ Len(nodeList) = 3
    /\ opc = "returned"
    /\ Cardinality({a \in returned : a.rpc = "PrepareTest" /\ a.answer = "refused"}) = 1
    /\ Cardinality({a \in returned : a.rpc = "PrepareTest" /\ a.answer = "ok"}) = 2

(***************************************************************************)
(* Properties of the daemon's components                                   *)
(***************************************************************************)
\* C3: the capacity counter equals the number of records in processes
\* (the slot of each accepted process is released exactly once).
C3_SlotsBalanced == usedSlots = Cardinality(DOMAIN processes)

\* C4: 0 <= used <= max in every state; a ReserveSlots that does not fit
\* fails and leaves used unchanged, and a ReleaseSlots of more than is used
\* leaves used at zero.
C4_UsedWithinBounds ==
    /\ [](0 <= usedSlots /\ usedSlots <= maxProcesses)
    /\ [][/\ (capRet'.op = "ReserveSlots" /\ ~capRet'.ok) =>
                 (usedSlots' = usedSlots /\ usedSlots + capRet'.count > maxProcesses)
          /\ (capRet'.op = "ReserveSlots" /\ capRet'.ok) =>
                 usedSlots' = usedSlots + capRet'.count
          /\ (capRet'.op = "ReleaseSlots" /\ capRet'.count > usedSlots) =>
                 usedSlots' = 0]_vars

\* A release of more slots than the accountant has at all was just made.
C4_Witness ==
    /\ capRet.op = "ReleaseSlots"
    /\ capRet.count > maxProcesses
    /\ usedSlots = 0

\* C5: a client whose worker is past its store step has stored exactly one
\* result, and the collector holds a completed or failed record under its id.
C5_OneResultPerClient ==
    \A i \in 1..Len(procs) :
        (procs[i].Mode = "client" /\ procs[i].pos \in {"cleanup", "done"}) =>
            /\ procs[i].stored = 1
            /\ MapHas(results, procs[i].TestID)
            /\ results[procs[i].TestID] \in {"completed", "failed"}

\* C6: when StopAll has run after a client was started, no start request
\* followed and every task has finished, no client record is left in
\* processes, used is 0, every client with a non-empty test id whose
\* subprocess was killed has a failed result, and the running count is 0.
C6_StopAllQuiesces ==
    (/\ stoppedAll
     /\ \E i \in 1..Len(procs) : procs[i].Mode = "client"
     /\ \A i \in 1..Len(procs) : procs[i].pos = "done") =>
        /\ \A k \in DOMAIN processes : procs[processes[k]].Mode # "client"
        /\ usedSlots = 0
        /\ \A i \in 1..Len(procs) :
               (procs[i].Mode = "client" /\ procs[i].killed /\ procs[i].TestID # "") =>
                   /\ MapHas(results, procs[i].TestID)
                   /\ results[procs[i].TestID] = "failed"
        /\ GetRunningCount = 0

\* C10: a port is in the in-use set exactly when port->test_id maps it to
\* a test id that test_id->port maps back to it.
C10_IndicesConsistent ==
    \A p \in PortRange \cup allocatedPorts \cup DOMAIN portToTestID :
        p \in allocatedPorts <=>
            /\ MapHas(portToTestID, p)
            /\ MapHas(testIDToPort, portToTestID[p])
            /\ testIDToPort[portToTestID[p]] = p

(***************************************************************************)
(* Properties of the port allocator (SpecAlloc)                            *)
(***************************************************************************)
\* C11: the allocated count and the available count add up to the capacity
\* end - start + 1, and every port in use lies in [start, end].
C11_CountsAddUp ==
    /\ GetAllocatedCount + GetAvailableCount = GetCapacity
    /\ GetCapacity = endPort - startPort + 1
    /\ \A p \in allocatedPorts : startPort <= p /\ p <= endPort

\* Every port of the range is in use after an AllocatePorts.
C11_Witness ==
    /\ allocRet.op = "AllocatePorts"
    /\ allocRet.ok
    /\ allocatedPorts = PortRange

\* C12: an AllocatePort(t) for a test id t that was given a port and has not
\* been released since returns that same port and leaves the three indices
\* unchanged.
C12_AllocatePortIdempotent ==
    [][(allocRet'.op = "AllocatePort" /\ MapHas(firstPort, allocRet'.arg)) =>
           /\ allocRet'.ok
           /\ allocRet'.ports = <<firstPort[allocRet'.arg]>>
           /\ UNCHANGED <<allocatedPorts, portToTestID, testIDToPort>>]_vars

\* C13: two different test ids never hold the same port; AllocatePort for a
\* test id that holds no port returns the lowest port of the range that is
\* not in use and gives it to the id, and when every port is in use it fails
\* and leaves the three indices unchanged.
C13_LowestFreePort ==
    /\ [](\A t1 \in DOMAIN testIDToPort, t2 \in DOMAIN testIDToPort :
              t1 # t2 => testIDToPort[t1] # testIDToPort[t2])
    /\ [][(allocRet'.op = "AllocatePort" /\ ~MapHas(testIDToPort, allocRet'.arg)) =>
              LET free == (startPort..endPort) \ allocatedPorts IN
              IF free # {}
              THEN LET lowest == CHOOSE p \in free : \A q \in free : p <= q IN
                   /\ allocRet'.ok
                   /\ allocRet'.ports = <<lowest>>
                   /\ allocatedPorts' = allocatedPorts \cup {lowest}
                   /\ MapHas(testIDToPort', allocRet'.arg)
                   /\ testIDToPort'[allocRet'.arg] = lowest
              ELSE /\ ~allocRet'.ok
                   /\ UNCHANGED <<allocatedPorts, portToTestID, testIDToPort>>]_vars

\* AllocatePort has just failed while two test ids hold ports.
C13_Witness ==
    /\ allocRet.op = "AllocatePort"
    /\ ~allocRet.ok
    /\ Cardinality(DOMAIN testIDToPort) >= 2

\* C14: AllocatePorts(count) either returns the count lowest free ports,
\* pairwise distinct, and marks exactly them in use, or, when fewer than
\* count ports are free, fails and leaves the three indices unchanged.
C14_AllOrNothing ==
    [][allocRet'.op = "AllocatePorts" =>
           LET count == allocRet'.arg
               free == (startPort..endPort) \ allocatedPorts
               lowest == {p \in free : Cardinality({q \in free : q < p}) < count}
               ports == allocRet'.ports
           IN IF Cardinality(free) >= count
              THEN /\ allocRet'.ok
                   /\ Len(ports) = count
                   /\ \A i \in 1..Len(ports), j \in 1..Len(ports) :
                          i < j => ports[i] < ports[j]
                   /\ {ports[i] : i \in 1..Len(ports)} = lowest
                   /\ allocatedPorts' = allocatedPorts \cup lowest
              ELSE /\ ~allocRet'.ok
                   /\ UNCHANGED <<allocatedPorts, portToTestID, testIDToPort>>]_vars

\* AllocatePorts has just failed for a count within the capacity, because
\* some ports are in use.
C14_Witness ==
    /\ allocRet.op = "AllocatePorts"
    /\ ~allocRet.ok
    /\ allocRet.arg <= GetCapacity
    /\ allocatedPorts # {}

\* C15: ReleasePort(t) for a test id that holds port p removes p from the
\* in-use set and from port->test_id and t from test_id->port, so that p is
\* a free port of the range again; for a test id that holds no port it fails
\* and leaves the three indices unchanged.
C15_ReleasePortFreesPort ==
    [][allocRet'.op = "ReleasePort" =>
           IF MapHas(testIDToPort, allocRet'.arg)
           THEN LET p == testIDToPort[allocRet'.arg] IN
                /\ allocRet'.ok
                /\ p \notin allocatedPorts'
                /\ ~MapHas(portToTestID', p)
                /\ ~MapHas(testIDToPort', allocRet'.arg)
                /\ p \in (startPort..endPort) \ allocatedPorts'
                /\ allocatedPorts' = allocatedPorts \ {p}
           ELSE /\ ~allocRet'.ok
                /\ UNCHANGED <<allocatedPorts, portToTestID, testIDToPort>>]_vars

\* A ReleasePort has just succeeded while another port stays in use.
C15_Witness ==
    /\ allocRet.op = "ReleasePort"
    /\ allocRet.ok
    /\ allocatedPorts # {}

(***************************************************************************)
(* Properties of the topology planner (SpecPlan)                           *)
(***************************************************************************)
\* C16: over a registry of N >= 2 nodes GenerateFullMesh returns N*(N-1)
\* pairs, one for every ordered pair of distinct nodes and none with source
\* = destination, enumerated source-major in registry order, the n-th with
\* test id test-<n>-<s>-to-<d> (so ids are unique), and ClientTests[s] holds
\* exactly the N-1 pairs whose source is s; with fewer than 2 nodes it fails.
C16_FullMeshPairs ==
    \A r \in 1..Len(plans) :
        LET topo == plans[r].topo
            N == Len(nodeList)
            others(i) == SelectSeq(nodeList, LAMBDA n : n # nodeList[i])
        IN IF N < 2 THEN topo.err
           ELSE /\ ~topo.err
                /\ Len(topo.Pairs) = N * (N - 1)
                /\ \A k \in 1..Len(topo.Pairs) :
                       LET i == ((k - 1) \div (N - 1)) + 1
                           j == ((k - 1) % (N - 1)) + 1
                           pair == topo.Pairs[k]
                       IN /\ pair.Source = nodeList[i]
                          /\ pair.Destination = others(i)[j]
                          /\ pair.Source # pair.Destination
                          /\ pair.TestID = "test-" \o ToString(k) \o "-" \o pair.Source
                                               \o "-to-" \o pair.Destination
                /\ \A i \in 1..N, j \in 1..N :
                       i # j =>
                           Cardinality({k \in 1..Len(topo.Pairs) :
                                            /\ topo.Pairs[k].Source = nodeList[i]
                                            /\ topo.Pairs[k].Destination = nodeList[j]}) = 1
                /\ \A k1 \in 1..Len(topo.Pairs), k2 \in 1..Len(topo.Pairs) :
                       k1 # k2 => topo.Pairs[k1].TestID # topo.Pairs[k2].TestID
                /\ DOMAIN topo.ClientTests = {nodeList[i] : i \in 1..N}
                /\ \A s \in DOMAIN topo.ClientTests :
                       /\ Len(topo.ClientTests[s]) = N - 1
                       /\ {topo.ClientTests[s][k] : k \in 1..(N - 1)} =
                              {topo.Pairs[k] : k \in {x \in 1..Len(topo.Pairs) :
                                                         topo.Pairs[x].Source = s}}

\* A mesh was planned over the registry c, b, a.
C16_Witness ==
    /\ nodeList = <<"c", "b", "a">>
    /\ plans # <<>>
    /\ ~plans[1].topo.err
    /\ Len(plans[1].topo.Pairs) = 6

C19_PlanningDeterministic ==
    \A r1 \in 1..Len(plans), r2 \in 1..Len(plans) :
        plans[r1].stage = plans[r2].stage => plans[r1] = plans[r2]

\* Two runs over a three-node registry with an override are complete.
C19_Witness ==
    /\ Len(nodeList) = 3
    /\ overrideCfg # <<>>
    /\ Len(plans) >= 2
    /\ plans[1].stage = "done"
    /\ plans[2].stage = "done"

\* C20 as stated: every pair of distinct nodes from the list of an override
\* with at least two nodes uses that override's profile, and a pair covered
\* by no such override uses the default profile.
C20_OverrideApplies ==
    \A r \in 1..Len(plans) :
        LET topo == plans[r].topo
            covers(o, pair) ==
                /\ Len(o.Nodes) >= 2
                /\ \E i \in 1..Len(o.Nodes), j \in 1..Len(o.Nodes) :
                       i # j /\ o.Nodes[i] = pair.Source /\ o.Nodes[j] = pair.Destination
        IN ~topo.err =>
               \A k \in 1..Len(topo.Pairs) :
                   /\ \A x \in 1..Len(overrideCfg) :
                          covers(overrideCfg[x], topo.Pairs[k]) =>
                              topo.Pairs[k].Profile = overrideCfg[x].Profile
                   /\ (\A x \in 1..Len(overrideCfg) : ~covers(overrideCfg[x], topo.Pairs[k]))
                          => topo.Pairs[k].Profile = DefaultProfile

\* C20, amended: a pair covered by overrides with at least two nodes uses
\* the profile of the last of them in configuration order when the profile
\* registry knows that profile and the default profile when it does not; a
\* pair covered by no such override uses the default profile.
C20_LastOverrideApplies ==
    \A r \in 1..Len(plans) :
        LET topo == plans[r].topo
            covers(o, pair) ==
                /\ Len(o.Nodes) >= 2
                /\ \E i \in 1..Len(o.Nodes), j \in 1..Len(o.Nodes) :
                       i # j /\ o.Nodes[i] = pair.Source /\ o.Nodes[j] = pair.Destination
            covering(pair) == {x \in 1..Len(overrideCfg) : covers(overrideCfg[x], pair)}
            last(pair) == CHOOSE x \in covering(pair) : \A y \in covering(pair) : y <= x
        IN ~topo.err =>
               \A k \in 1..Len(topo.Pairs) :
                   topo.Pairs[k].Profile =
                       IF covering(topo.Pairs[k]) = {} THEN DefaultProfile
                       ELSE IF overrideCfg[last(topo.Pairs[k])].Profile \in ProfileRegistry
                       THEN overrideCfg[last(topo.Pairs[k])].Profile
                       ELSE DefaultProfile

\* A mesh of three nodes was planned under two overrides that both cover
\* the pair (a, b), with different profiles.
C20_Witness ==
    /\ Len(nodeList) = 3
    /\ Len(overrideCfg) = 2
    /\ overrideCfg[1].Profile # overrideCfg[2].Profile
    /\ \A x \in 1..2 : \E i \in 1..Len(overrideCfg[x].Nodes), j \in 1..Len(overrideCfg[x].Nodes) :
           overrideCfg[x].Nodes[i] = "a" /\ overrideCfg[x].Nodes[j] = "b"
    /\ plans # <<>>
    /\ ~plans[1].topo.err

HasFlag(args, flag) == \E a \in 1..Len(args) : args[a] = flag

\* C33: the command line built for the client of every planned pair has -u
\* if and only if the pair's profile has the protocol UDP, and when it has
\* none of -C, -M and -N is on it, whatever the profile's congestion
\* control, MSS and no-delay options are.
C33_ArgvRespectsProtocol ==
    \A r \in 1..Len(plans) :
        LET topo == plans[r].topo
            args(pair) ==
                BuildCommand(NodeIP(pair.Destination), portCounterStart,
                             convertProfileToIperfConfig(ConvertProfileToProto(pair.Profile))).args
        IN ~topo.err =>
               \A k \in 1..Len(topo.Pairs) :
                   LET udp == TestProfiles[topo.Pairs[k].Profile].Protocol = "udp" IN
                   /\ HasFlag(args(topo.Pairs[k]), "-u") <=> udp
                   /\ udp => \A flag \in {"-C", "-M", "-N"} :
                                 ~HasFlag(args(topo.Pairs[k]), flag)

(***************************************************************************)
(* Frame properties of the process manager (SpecMgr)                       *)
(***************************************************************************)
\* C27: StartServer fails when servers[port] exists and StartClient fails
\* when processes[test_id] exists; a start rejected as a duplicate or for
\* lack of capacity reserves no slot, creates no process and leaves
\* processes, servers and the used-slot counter unchanged.
C27_RejectedStartChangesNothing ==
    [][/\ (mgrRet'.op = "StartServer" /\ MapHas(servers, mgrRet'.arg))
              => mgrRet'.err = "already running"
       /\ (mgrRet'.op = "StartClient" /\ MapHas(processes, mgrRet'.arg))
              => mgrRet'.err = "already running"
       /\ (/\ mgrRet'.op \in {"StartServer", "StartClient"}
           /\ mgrRet'.err \in {"already running", "insufficient capacity"})
              => /\ usedSlots' = usedSlots
                 /\ procs' = procs
                 /\ processes' = processes
                 /\ servers' = servers]_vars

\* A client start was rejected as a duplicate while its first start is
\* still recorded and a slot is free.
C27_Witness ==
    /\ mgrRet.op = "StartClient"
    /\ mgrRet.err = "already running"
    /\ MapHas(processes, mgrRet.arg)
    /\ usedSlots < maxProcesses

PhaseOf(rpc) ==
    [Initialize |-> "initialize", PrepareTest |-> "prepare",
     StartServers |-> "startServers", StartClients |-> "startClients"][rpc]

PhaseCalls(rpc, c) ==
    IF rpc = "Initialize" THEN TRUE
    ELSE IF rpc = "PrepareTest" THEN MapHas(nodeTopologies.result, c)
    ELSE IF rpc = "StartServers" THEN Len(MapGet(topology.ServerPorts, c, <<>>)) # 0
    ELSE Len(ClientTargets(topology, c)) # 0

\* C24: a StartServers or StartClients response that lists errors for some
\* of its items makes its phase fail at the phase's end, also when the
\* daemon started other items (success = true): once the phase is over the
\* orchestrator is in state failed.
C24_ItemErrorsAreFatal ==
    \A r \in returned :
        (r.rpc \in {"StartServers", "StartClients"} /\ r.answer = "partial") =>
            (opc = PhaseOf(r.rpc) \/ state = StateFailed)

C26_GetResultsFailureNotFatal ==
    /\ (opc = "returned" /\ ret = "nil" =>
            /\ state = StateComplete
            /\ \A c \in GetAllClients :
                   \E q \in sent : q.rpc = "GetResults" /\ q.node = c)
    /\ (runTest.pc = "done" =>
            /\ runTest.ret = "nil"
            /\ runTest.queried = GetAllClients
            /\ aggResults = GetAllClients \ runTest.errored)

\* C31: every RPC is bounded by the rpc timeout, so that ExecuteTest returns
\* (in state complete or failed) in every run, also when a daemon accepts a
\* call and never answers it.
C31_ExecuteTestTerminates ==
    <>(opc = "returned" /\ state \in {StateComplete, StateFailed})

\* The longest duration among the profiles of pairs.
MaxProfileDuration(pairs) ==
    LET durations == {TestProfiles[pairs[k].Profile].Duration : k \in 1..Len(pairs)}
    IN CHOOSE d \in durations : \A e \in durations : e <= d

\* C32: once the wait phase is over it has slept the longest profile
\* duration among the topology's pairs plus 10 seconds (15 seconds when
\* every profile has duration 5), and it did not fail.
C32_WaitIsMaxDurationPlusTen ==
    opc \in {"collect", "cleanup"} =>
        /\ state # StateFailed
        /\ waitTime = MaxProfileDuration(topology.Pairs) + 10

(***************************************************************************)
(* Properties of the daemon server (SpecDaemon, SpecDaemonRun)             *)
(***************************************************************************)
RequiredSlots(req) == Len(req.ServerAssignments) + Len(req.ClientAssignments)

\* C22 as stated: PrepareTest and GetStatus change neither the used-slot
\* counter, the process records, the port allocator nor the collector, and
\* PrepareTest answers can_handle = (available slots >= number of server
\* assignments + number of client assignments) for every request.
C22_PrepareAnswersAvailability ==
    [][(rpcRet'.op \in {"PrepareTest", "GetStatus"} =>
            UNCHANGED <<usedSlots, maxProcesses, mgrVars, allocVars, collVars>>)
       /\ (rpcRet'.op = "PrepareTest" =>
            rpcRet'.resp.CanHandle =
                (maxProcesses - usedSlots >= RequiredSlots(rpcRet'.req)))]_vars

\* C22, amended: PrepareTest and GetStatus change neither the used-slot
\* counter, the process records, the port allocator nor the collector;
\* PrepareTest answers can_handle = true exactly when the request carries a
\* topology, the capacity detection succeeded and the available slots
\* (max - used) are at least the number of server plus client assignments.
C22_PrepareAndStatusPure ==
    [][(rpcRet'.op \in {"PrepareTest", "GetStatus"} =>
            UNCHANGED <<usedSlots, maxProcesses, mgrVars, allocVars, collVars>>)
       /\ (rpcRet'.op = "PrepareTest" =>
            rpcRet'.resp.CanHandle =
                (/\ rpcRet'.req.HasTopology
                 /\ rpcRet'.resp.Message # "failed to detect capacity"
                 /\ maxProcesses - usedSlots >= RequiredSlots(rpcRet'.req)))]_vars

\* PrepareTest has refused a request with a topology while a server held a
\* slot: fewer slots were available than the request needs.
C22_Witness ==
    /\ rpcRet.op = "PrepareTest"
    /\ rpcRet.req.HasTopology
    /\ rpcRet.resp.Message = "insufficient capacity"
    /\ ~rpcRet.resp.CanHandle
    /\ usedSlots > 0
    /\ Len(procs) > 0
    /\ RequiredSlots(rpcRet.req) <= maxProcesses

\* The number of occurrences of x in seq.
Occurrences(seq, x) == Cardinality({i \in 1..Len(seq) : seq[i] = x})

\* The ports of a StartServers request, the test ids of a StartClients one.
RequestedItems(r) ==
    IF r.op = "StartServers" THEN r.req
    ELSE [i \in 1..Len(r.req) |-> r.req[i].TestId]

ErrorItems(r) == [i \in 1..Len(r.resp.Errors) |-> r.resp.Errors[i].Item]

\* C23: a StartServers (StartClients) response accounts for every requested
\* port (target), also for those after a failed one: each occurrence of an
\* item in the request is exactly one entry of started or of errors, and
\* success is true if and only if at least one item was started.
C23_StartReportsEveryItem ==
    rpcRet.op \in {"StartServers", "StartClients"} =>
        /\ rpcRet.resp.Success = (Len(rpcRet.resp.Started) > 0)
        /\ Len(rpcRet.resp.Started) + Len(rpcRet.resp.Errors) = Len(rpcRet.req)
        /\ \A i \in 1..Len(rpcRet.req) :
               LET x == RequestedItems(rpcRet)[i] IN
               Occurrences(RequestedItems(rpcRet), x) =
                   Occurrences(rpcRet.resp.Started, x) + Occurrences(ErrorItems(rpcRet), x)

\* StartServers has returned for two ports: the first one failed, the second
\* one was started after it, and the response reports success.
C23_Witness ==
    /\ rpcRet.op = "StartServers"
    /\ Len(rpcRet.req) = 2
    /\ rpcRet.req[1] # rpcRet.req[2]
    /\ rpcRet.resp.Success
    /\ rpcRet.resp.Started = <<rpcRet.req[2]>>
    /\ Len(rpcRet.resp.Errors) = 1
    /\ rpcRet.resp.Errors[1].Item = rpcRet.req[1]
    /\ MapHas(servers, rpcRet.req[2])

\* The stored results a GetResults request selects: all of them without
\* test ids, else those of the listed test ids.
SelectedResults(req) ==
    {[TestId |-> t, Status |-> results[t]] :
         t \in {k \in DOMAIN results :
                    \/ Len(req.TestIds) = 0
                    \/ \E i \in 1..Len(req.TestIds) : req.TestIds[i] = k}}

ResultSet(resp) == {resp.Results[i] : i \in 1..Len(resp.Results)}

\* C30: GetResults with clear_after_retrieval reads the results its filter
\* selects, then empties the whole collector (results and both outcome
\* counters) whatever the filter, and returns what it read; without
\* clear_after_retrieval it returns the selected results and leaves the
\* collector unchanged, so that a repeated call returns the same set.
C30_ClearEmptiesWholeCollector ==
    [][/\ (handler'.op = "GetResults" /\ handler.op = "none" =>
               /\ handler'.req.ClearAfterRetrieval
               /\ ResultSet(handler'.resp) = SelectedResults(handler'.req)
               /\ UNCHANGED collVars)
       /\ (rpcRet'.op = "GetResults" /\ rpcRet'.req.ClearAfterRetrieval =>
               /\ handler.op = "GetResults"
               /\ rpcRet'.resp = handler.resp
               /\ rpcRet'.req = handler.req
               /\ results' = EmptyMap
               /\ completed' = 0
               /\ failed' = 0)
       /\ (rpcRet'.op = "GetResults" /\ ~rpcRet'.req.ClearAfterRetrieval =>
               /\ UNCHANGED collVars
               /\ ResultSet(rpcRet'.resp) = SelectedResults(rpcRet'.req)
               /\ rpcRet'.resp.TotalCount = Cardinality(SelectedResults(rpcRet'.req)))]_vars

\* GetResults with clear_after_retrieval and the filter <<"t1">> has returned
\* the result of t1 alone while t2 was stored too: the collector is empty and
\* both counters are zero.
C30_Witness ==
    /\ rpcRet.op = "GetResults"
    /\ rpcRet.req.ClearAfterRetrieval
    /\ rpcRet.req.TestIds = <<"t1">>
    /\ Len(rpcRet.resp.Results) = 1
    /\ rpcRet.resp.Results[1].TestId = "t1"
    /\ \E i \in 1..Len(procs) : procs[i].TestID = "t2" /\ procs[i].stored > 0
    /\ results = EmptyMap
    /\ completed = 0
    /\ failed = 0

\* C29: once Initialize was given max_processes = m > 0 the daemon's
\* capacity bound is m: a successful Initialize or GetStatus reports
\* max = m, and the bound that PrepareTest and the slot reservations are
\* decided against is m.
C29_InitializeAdoptsMaxProcesses ==
    /\ (rpcRet.op = "Initialize" /\ rpcRet.req.MaxProcesses > 0 /\ rpcRet.resp.Success =>
            rpcRet.resp.Capacity.MaxProcesses = rpcRet.req.MaxProcesses)
    /\ (rpcRet.op = "GetStatus" /\ ~rpcRet.resp.err =>
            rpcRet.resp.CurrentCapacity.MaxProcesses = configMaxProcesses)
    /\ maxProcesses = configMaxProcesses

(***************************************************************************)
(* Properties of the aggregator's summary (SpecSummary)                    *)
(***************************************************************************)
PositiveCompleted(m) ==
    {k \in DOMAIN m : m[k].Status = "TEST_STATUS_COMPLETED" /\ m[k].ThroughputBps > 0}

RECURSIVE SumThroughput(_, _)
SumThroughput(m, keys) ==
    IF keys = {} THEN 0
    ELSE LET k == CHOOSE x \in keys : TRUE
         IN m[k].ThroughputBps + SumThroughput(m, keys \ {k})

\* C34: in a summary, the average throughput is the sum of the positive
\* throughputs of the completed results divided by their number, the minimum
\* and the maximum are taken over the same results, so that min <= avg <= max
\* when there is one, and all three are 0 when there is none; the total is
\* the number of distinct test ids collected.
C34_SummaryAveragesPositiveCompleted ==
    summary # NoSummary =>
        LET S == PositiveCompleted(aggregated)
            avg == summary.AvgThroughput
        IN /\ summary.TotalTests = Cardinality(DOMAIN aggregated)
           /\ S # {} =>
                /\ avg.num * Cardinality(S) = SumThroughput(aggregated, S) * avg.den
                /\ \A k \in S : summary.MinThroughput <= aggregated[k].ThroughputBps
                /\ \A k \in S : summary.MaxThroughput >= aggregated[k].ThroughputBps
                /\ \E k \in S : summary.MinThroughput = aggregated[k].ThroughputBps
                /\ \E k \in S : summary.MaxThroughput = aggregated[k].ThroughputBps
                /\ summary.MinThroughput * avg.den <= avg.num
                /\ avg.num <= summary.MaxThroughput * avg.den
           /\ S = {} =>
                /\ avg.num = 0
                /\ summary.MinThroughput = 0
                /\ summary.MaxThroughput = 0

(***************************************************************************)
(* Late cleanup tasks and the manager's indices (SpecMgr)                  *)
(***************************************************************************)
\* The subprocess of procs[i] was accepted and has neither ended nor been
\* stopped.
Running(i) == procs[i].pos \in {"wait", "run"} /\ ~procs[i].killed

\* C35: a process that was accepted and has neither exited nor been stopped
\* has its record in processes, and in servers when it is a server, whatever
\* the cleanup tasks of older processes with the same key do; and no two
\* such processes share a key.
C35_CleanupSparesNewerProcess ==
    /\ \A i \in DOMAIN procs :
           Running(i) =>
               /\ MapHas(processes, procs[i].TestID)
               /\ processes[procs[i].TestID] = i
               /\ procs[i].Mode = "server" =>
                      /\ MapHas(servers, procs[i].Port)
                      /\ servers[procs[i].Port] = i
    /\ \A i, j \in DOMAIN procs :
           Running(i) /\ Running(j) /\ procs[i].TestID = procs[j].TestID => i = j

\* C36: the manager's two indices agree: servers has an entry for a port
\* exactly when processes has one for the port's server key, both are the
\* same server record with that port, and every server record of processes
\* is indexed in servers; also when a client runs under a test id that has
\* the form of a server key.
C36_IndicesAgree ==
    /\ \A p \in ServerPorts :
           MapHas(servers, p) <=> MapHas(processes, ServerTestID(p))
    /\ \A p \in DOMAIN servers :
           /\ procs[servers[p]].Mode = "server"
           /\ procs[servers[p]].Port = p
           /\ MapHas(processes, ServerTestID(p)) =>
                  processes[ServerTestID(p)] = servers[p]
    /\ \A k \in DOMAIN processes :
           procs[processes[k]].Mode = "server" =>
               /\ MapHas(servers, procs[processes[k]].Port)
               /\ servers[procs[processes[k]].Port] = processes[k]

(***************************************************************************)
(* Locking (SpecLocks)                                                     *)
(***************************************************************************)
\* The calls that start a subprocess or wait for one.
SpawnOrWaitCalls == {"RunServer", "Wait", "Run"}

\* C37: the manager lock is not held by a goroutine that is starting the
\* measurement subprocess or waiting for it, in StartServer, StartClient,
\* monitorProcess and runClient.
C37_NoLockAcrossSpawnOrWait ==
    \A i \in 1..MaxRequests :
        /\ goroutines[i].pc \in SpawnOrWaitCalls => mu # [slot |-> i, who |-> "handler"]
        /\ goroutines[i].worker \in SpawnOrWaitCalls => mu # [slot |-> i, who |-> "worker"]

\* The goroutines that are inside a call reading the used-slot counter from
\* an RPC handler, and those inside a reserve or a release.
CounterReaders ==
    {[slot |-> i, who |-> "handler"] : i \in {j \in 1..MaxRequests :
        goroutines[j].pc \in {"GetAvailableSlots", "DetectCapacity"}}}

CounterWriters ==
    {[slot |-> i, who |-> "handler"] : i \in {j \in 1..MaxRequests :
        goroutines[j].pc \in {"ReserveSlots", "ReleaseSlots"}}}
    \cup {[slot |-> i, who |-> "worker"] : i \in {j \in 1..MaxRequests :
        goroutines[j].worker = "ReleaseSlots"}}

\* C38: an RPC handler never reads the used-slot counter while another
\* goroutine reserves or releases slots: Manager.mu is the only lock there
\* is, one goroutine holds it at a time, so two goroutines never hold a
\* common lock and never are inside the counter together.
C38_CounterAccessSerialized ==
    CounterReaders = {} \/ CounterWriters = {}

(***************************************************************************)
(* The collector's counters (SpecColl)                                     *)
(***************************************************************************)
StoredWithStatus(status) == Cardinality({k \in DOMAIN results : results[k] = status})

\* C39: after any sequence of StoreResult, StoreIperfResult, ClearResult,
\* ClearResults and ClearAll, the completed counter is the number of stored
\* results with status completed, the failed counter the number with status
\* failed, and neither is negative.
C39_CountersMatchContents ==
    /\ completed = StoredWithStatus("completed")
    /\ failed = StoredWithStatus("failed")
    /\ completed >= 0
    /\ failed >= 0

(***************************************************************************)
(* The progress tracker (SpecProgressLive)                                 *)
(***************************************************************************)
\* C40: a call to Print, GetSummary, GetPercentComplete or GetPhasePercent
\* returns, whatever writer calls run beside it on the same tracker.
C40_ReaderCallsReturn ==
    \A t \in 1..MaxCallers :
        (callers[t].op \in ReaderOps) ~> (callers[t].op = "none")
====
